---- MODULE Spec2Model ----
(***************************************************************************)
(* Side-plot pipeline of shu (src/aesthetics.rs, src/gui.rs): the bevy     *)
(* systems that aggregate distribution / point bindings into Xaxis         *)
(* entities, draw histograms and box-points against them, normalise their  *)
(* heights, counter-scale their children and filter them by condition.     *)
(*                                                                         *)
(* One update tick runs every system of the stage once, in an order the    *)
(* scheduler is free to choose (AesPlugin::build declares no order among   *)
(* them); entities spawned through Commands appear when the stage ends.    *)
(***************************************************************************)
EXTENDS Integers, Sequences, FiniteSets, TLC

\* ------------------------------------------------------------------ bounds
\* How many bindings (Aesthetics entities) the loader may spawn in one run.
MaxBindings == 3
\* How many times the positions are saved in a run.
MaxSaves == 2

\* --------------------------------------------------------------- constants
Left == "Left"
Right == "Right"
Up == "Up"
Hist == "Hist"
BoxPoint == "BoxPoint"
Dist == "Dist"
Point == "Point"
\* Point<f32> with Gcolor / Gsize and GeomArrow / GeomMetabolite
ArrowColor == "ArrowColor"
ArrowSize == "ArrowSize"
CircleColor == "CircleColor"
\* Distribution<f32> with Gy and the PopUp marker
PopUp == "PopUp"
NoSide == "none"
ALL == "ALL"
\* Option<String>::None of Aesthetics.condition / HistTag.condition
NoCond == "-"
Visible == "VISIBLE"
Invisible == "INVISIBLE"

\* f32 values that may be undefined: <<v>> is the number v, <<>> is NaN.
NaN == <<>>
Num(v) == <<v>>

\* The arrows load_map spawns (ArrowTag.id); node_id is identified with id.
ArrowIds == {"a", "b"}

\* Number of bins plot_side_hist asks plot_hist for.
HistBins == 30
\* UiState::default().max_left / max_right / max_top
DefaultSideMax == 100
\* Another value the settings slider (1.0..=300.0) can be moved to.
OtherSideMax == 50
\* UiState::default().min_reaction / max_reaction
MinReaction == 20
MaxReaction == 60
\* The stroke width load_map gives an arrow, and plot_arrow_size an arrow
\* its binding does not list.
DefaultWidth == 10
\* Alpha of an opaque pixel (the colour buttons are Alpha::Opaque).
Opaque == 255
\* The squared distance within which the cursor is on a Hover or can grab an
\* entity.
ReachSquared == 5000

\* Ten samples at 1 and one at 5 (raw histogram height 10), and forty at 1
\* and one at 5 (raw histogram height 40).
Ten == [i \in 1..11 |-> IF i <= 10 THEN 1 ELSE 5]
Forty == [i \in 1..41 |-> IF i <= 40 THEN 1 ELSE 5]

\* The datasets the loader can spawn bindings from: each entry is one
\* Aesthetics entity with its Distribution<f32> or Point<f32>, its GeomHist
\* and the Gy marker (no PopUp).
Pool ==
  << [kind |-> Dist, identifiers |-> <<"a">>, data |-> << <<1, 2, 3>> >>,
      condition |-> "c1", side |-> Right, plot |-> Hist],
     [kind |-> Dist, identifiers |-> <<"a">>, data |-> << <<0, 5>> >>,
      condition |-> "c2", side |-> Right, plot |-> Hist],
     [kind |-> Point, identifiers |-> <<"a", "b">>, data |-> <<4, 7>>,
      condition |-> "c1", side |-> Right, plot |-> BoxPoint],
     [kind |-> Dist, identifiers |-> <<"b">>, data |-> << <<2, 2>> >>,
      condition |-> NoCond, side |-> Left, plot |-> Hist],
     [kind |-> Dist, identifiers |-> <<"a", "b">>, data |-> << Ten, Forty >>,
      condition |-> NoCond, side |-> Left, plot |-> Hist],
     [kind |-> Dist, identifiers |-> <<"b">>, data |-> << <<>> >>,
      condition |-> "c2", side |-> Right, plot |-> Hist],
     [kind |-> Dist, identifiers |-> <<"a">>, data |-> << <<1, 4>> >>,
      condition |-> "c1", side |-> Up, plot |-> Hist],
     [kind |-> Dist, identifiers |-> <<"b">>, data |-> << <<3, 6>> >>,
      condition |-> "c1", side |-> Right, plot |-> BoxPoint],
     [kind |-> Dist, identifiers |-> <<"a">>, data |-> << <<2, 4>> >>,
      condition |-> "c3", side |-> Right, plot |-> Hist],
     [kind |-> Point, identifiers |-> <<"a">>, data |-> <<5>>,
      condition |-> "c2", side |-> Up, plot |-> BoxPoint],
     [kind |-> Point, identifiers |-> <<"a">>, data |-> <<5>>,
      condition |-> "c2", side |-> Right, plot |-> BoxPoint],
     \* Point<f32> bindings of the arrow colour, arrow size and metabolite
     \* colour channels (no GeomHist: side and plot do not apply).
     [kind |-> ArrowColor, identifiers |-> <<"a", "b">>, data |-> <<1, 2>>,
      condition |-> "c1", side |-> NoSide, plot |-> NoSide],
     [kind |-> ArrowColor, identifiers |-> <<"a", "b">>, data |-> <<9, 3>>,
      condition |-> "c2", side |-> NoSide, plot |-> NoSide],
     [kind |-> ArrowColor, identifiers |-> <<"a", "b">>, data |-> <<4, 4>>,
      condition |-> NoCond, side |-> NoSide, plot |-> NoSide],
     [kind |-> ArrowSize, identifiers |-> <<"a", "b">>, data |-> <<2, 6>>,
      condition |-> "c1", side |-> NoSide, plot |-> NoSide],
     [kind |-> ArrowSize, identifiers |-> <<"b">>, data |-> <<5>>,
      condition |-> "c2", side |-> NoSide, plot |-> NoSide],
     [kind |-> CircleColor, identifiers |-> <<"m">>, data |-> <<8>>,
      condition |-> "c1", side |-> NoSide, plot |-> NoSide],
     \* a size binding that also lists a reaction the map does not draw
     [kind |-> ArrowSize, identifiers |-> <<"x", "a", "b">>, data |-> <<0, 5, 10>>,
      condition |-> "c2", side |-> NoSide, plot |-> NoSide],
     \* distributions shown in the popup of arrow a, one per condition
     [kind |-> PopUp, identifiers |-> <<"a">>, data |-> << <<1, 2, 3>> >>,
      condition |-> "c1", side |-> Up, plot |-> Hist],
     [kind |-> PopUp, identifiers |-> <<"a">>, data |-> << <<2, 5>> >>,
      condition |-> "c2", side |-> Up, plot |-> Hist],
     \* a size binding that lists arrow b but not arrow a
     [kind |-> ArrowSize, identifiers |-> <<"x", "b">>, data |-> <<1, 3>>,
      condition |-> "c2", side |-> NoSide, plot |-> NoSide],
     \* colours of the metabolites m and n, one binding per condition
     [kind |-> CircleColor, identifiers |-> <<"m", "n">>, data |-> <<1, 3>>,
      condition |-> "c1", side |-> NoSide, plot |-> NoSide],
     [kind |-> CircleColor, identifiers |-> <<"m", "n">>, data |-> <<6, 2>>,
      condition |-> "c2", side |-> NoSide, plot |-> NoSide] >>

\* The entries of Pool each specification loads bindings from.
AllPool == {p \in 1..Len(Pool) : Pool[p].kind \in {Dist, Point}}
MapPool == {p \in 1..17 : Pool[p].kind \in {ArrowColor, ArrowSize, CircleColor}}
SizePool == {p \in 1..Len(Pool) : Pool[p].kind = ArrowSize}
HoverPool == {p \in 1..Len(Pool) : Pool[p].kind = PopUp}
ScalePool == {1, 3, 5}
VisPool == {1, 2, 5}
DragPool == {1, 2}
SavePool == {5, 11}
LivePool == {1, 5}
CirclePool == {22, 23}

VARIABLES
  mapLoaded,   \* MapState.loaded: the ArrowTag entities exist
  aes,         \* the Aesthetics entities, in spawn order
  axes,        \* the Xaxis entities, in spawn order
  hists,       \* the HistTag entities (rendered encodings), in spawn order
  cmdAxes,     \* Xaxis spawns queued in Commands during this tick
  cmdHists,    \* HistTag spawns queued in Commands during this tick
  ui,          \* UiState: condition, conditions, max_left, max_right, max_top
  ran,         \* the systems that have run in the current tick
  scene,       \* what is drawn: the arrows' strokes and the colour legends
  map,         \* the saved histogram positions: in the EscherMap asset (file)
               \* and in the ArrowTag entities (hists)
  hover        \* the Hover entities' xlimits, the popups and the cursor

vars == <<mapLoaded, aes, axes, hists, cmdAxes, cmdHists, ui, ran, scene, map, hover>>

\* ----------------------------------------------------------------- helpers
SeqToSet(s) == {s[i] : i \in 1..Len(s)}

\* All enumerations of the finite set S as a sequence without repetition.
Perms(S) ==
  {s \in [1..Cardinality(S) -> S] : \A i, j \in 1..Cardinality(S) : s[i] = s[j] => i = j}

\* Iterator::position: first index whose identifier is x, 0 for None.
Position(ids, x) ==
  IF \E i \in 1..Len(ids) : ids[i] = x
  THEN CHOOSE i \in 1..Len(ids) : ids[i] = x /\ \A j \in 1..(i - 1) : ids[j] # x
  ELSE 0

\* f32::min / f32::max: a NaN operand yields the other operand.
F32Min(x, y) ==
  IF x = NaN THEN y ELSE IF y = NaN THEN x ELSE IF x[1] <= y[1] THEN x ELSE y
F32Max(x, y) ==
  IF x = NaN THEN y ELSE IF y = NaN THEN x ELSE IF x[1] >= y[1] THEN x ELSE y

\* funcplot::min_f32 / max_f32: reductions over a sample set; an empty set
\* has no defined minimum.
min_f32(s) ==
  IF s = <<>> THEN NaN
  ELSE Num(CHOOSE v \in SeqToSet(s) : \A w \in SeqToSet(s) : v <= w)
max_f32(s) ==
  IF s = <<>> THEN NaN
  ELSE Num(CHOOSE v \in SeqToSet(s) : \A w \in SeqToSet(s) : v >= w)

Present(i) == Pool[aes[i].src]

\* ------------------------------------------------------------- rationals
\* f32 results of a division, kept exact: n/d in lowest terms; d = 0 is
\* infinity (x / 0.0 for x > 0) and 0/0 is NaN.
RECURSIVE Gcd(_, _)
Gcd(a, b) == IF b = 0 THEN a ELSE Gcd(b, a % b)

Ratio(a, b) ==
  IF a = 0 /\ b = 0 THEN [n |-> 0, d |-> 0]
  ELSE [n |-> a \div Gcd(a, b), d |-> b \div Gcd(a, b)]

One == Ratio(1, 1)

\* 1. / scale
Recip(q) == Ratio(q.d, q.n)

\* ----------------------------------------------------------------- scene
\* DrawMode::Stroke(StrokeMode::new(Color::rgb(51/255, 78/255, 101/255), 10.0))
MapStroke ==
  [color |-> [kind |-> "map", t |-> Ratio(0, 1)], width |-> Ratio(DefaultWidth, 1)]

\* The metabolites load_map draws as circles, and their fill:
\* FillMode::color(Color::rgb(224/255, 137/255, 101/255)).
CircleIds == {"m", "n"}
MapFill == [kind |-> "map", t |-> Ratio(0, 1)]

\* The colour legends: LegendArrow and LegendCircle.
LegendKinds == {"arrow", "circle"}

\* A pixel of a legend image: rgb is empty for (0, 0, 0), a is the alpha.
ClearPixel == [rgb |-> <<>>, a |-> 0]
WhitePixel(alpha) == [rgb |-> <<Num(Opaque)>>, a |-> alpha]

\* A legend as spawn_legend leaves it: collapsed, empty labels, and an image
\* two pixels wide whose shape is cut out by transparent pixels.
SpawnedLegend ==
  [display |-> "None",
   xmin |-> [text |-> "", mant |-> 0, exp |-> 0],
   xmax |-> [text |-> "", mant |-> 0, exp |-> 0],
   image |-> [width |-> 2,
              data |-> <<WhitePixel(0), WhitePixel(Opaque),
                         WhitePixel(Opaque), WhitePixel(Opaque),
                         ClearPixel, WhitePixel(Opaque)>>]]

\* ------------------------------------------------------------ transforms
\* Option<T>: <<>> is None, <<v>> is Some(v).
None == <<>>
Some(v) == <<v>>

\* The map the runs are made on: where load_map puts each arrow, the main
\* direction of its reaction and the length of its path.
ArrowAt == [r \in ArrowIds |-> IF r = "a" THEN <<0, 0>> ELSE <<100, 0>>]
ArrowDirection == [r \in ArrowIds |-> IF r = "a" THEN <<1, 0>> ELSE <<0, 1>>]
PathLength == [r \in ArrowIds |-> IF r = "a" THEN 100 ELSE 80]

\* Vec2::perp
Perp(v) == <<0 - v[2], v[1]>>

\* Vec2::angle_between for the unit vectors along the axes, in degrees,
\* counter-clockwise positive, in (-180, 180].
Quadrant(v) ==
  IF v = <<1, 0>> THEN 0 ELSE IF v = <<0, 1>> THEN 1 ELSE IF v = <<-1, 0>> THEN 2 ELSE 3
AngleBetween(u, v) ==
  LET q == (Quadrant(v) - Quadrant(u) + 4) % 4
  IN IF q = 3 THEN -90 ELSE 90 * q

\* A Transform: translation (x, y, z) and the rotation about Z in degrees;
\* z is kept in tenths (z10 = 5 is z = 0.5). The scale is not part of it.
\* Transform::from_xyz(trans.x, trans.y, 0.5).with_rotation(rotation_90),
\* moved `away` along the perpendicular of the arrow's direction.
ComputedTransform(r, side) ==
  LET away == IF side = Right THEN -30 ELSE 30
      rotation_90 == IF side = Right
                     THEN 0 - AngleBetween(<<0, 1>>, Perp(ArrowDirection[r]))
                     ELSE 0 - AngleBetween(<<0, -1>>, Perp(ArrowDirection[r]))
  IN [x |-> ArrowAt[r][1] + Perp(ArrowDirection[r])[1] * away,
      y |-> ArrowAt[r][2] + Perp(ArrowDirection[r])[2] * away,
      z10 |-> 5,
      rot |-> rotation_90]

\* SerTransform: From<Transform> and Into<Transform>.
ToSer(t) == [translation |-> <<t.x, t.y, t.z10>>, rotation |-> t.rot]
FromSer(st) ==
  [x |-> st.translation[1], y |-> st.translation[2], z10 |-> st.translation[3],
   rot |-> st.rotation]

\* Reaction.hist_position / ArrowTag.hists of a map without saved positions.
NoPositions == [r \in ArrowIds |-> [side \in {Left, Right} |-> None]]

\* if let Some(Some(ser_transform)) = arrow.hists.as_ref().map(|x| x.get(&geom.side))
\*     { ser_transform.clone().into() } else { .. }
AxisTransform(r, side) ==
  IF side \in DOMAIN map.hists[r] /\ map.hists[r][side] # None
  THEN FromSer(map.hists[r][side][1])
  ELSE ComputedTransform(r, side)

\* ------------------------------------------------------- side colours
\* An Rgba, as its four components.
\* UiState::default(): color_left, color_right and color_top at key "".
DefaultColor(side) ==
  IF side = Left THEN <<218, 150, 135, 124>>
  ELSE IF side = Right THEN <<125, 206, 96, 124>>
  ELSE <<161, 134, 216, 124>>

\* Rgba::default()
Transparent == <<0, 0, 0, 0>>

\* A colour the user can pick with a colour button.
Picked == <<10, 20, 30, 255>>

\* The map m with colour c stored under key.
Stored(m, key, c) ==
  [k \in (DOMAIN m) \cup {key} |-> IF k = key THEN c ELSE m[k]]

\* The side legends LegendHist and LegendBox: one per side.
LegendSides == {Left, Right}

\* A histogram legend as spawn_legend leaves it.
SpawnedHistLegend ==
  [display |-> "None",
   xmin |-> [text |-> "", mant |-> 0, exp |-> 0],
   xmax |-> [text |-> "", mant |-> 0, exp |-> 0],
   color |-> Transparent]

\* ---------------------------------------------------------------- Init
\* The resources and the scene when the application has started:
\* UiState::default(), the map as drawn by load_map, the legends as spawned,
\* no popup, the cursor outside the window and no button held.
Constructed ==
  [ui |-> [condition |-> "", conditions |-> <<"">>,
           max_left |-> DefaultSideMax, max_right |-> DefaultSideMax,
           max_top |-> DefaultSideMax,
           color |-> [side \in {Left, Right, Up} |->
                        [key \in {""} |-> DefaultColor(side)]]],
   scene |-> [stroke |-> [r \in ArrowIds |-> MapStroke],
              fill |-> [c \in CircleIds |-> MapFill],
              legend |-> [k \in LegendKinds |-> SpawnedLegend],
              hist |-> [side \in LegendSides |-> SpawnedHistLegend],
              box |-> [side \in LegendSides |-> SpawnedLegend]],
   hover |-> [xlimits |-> [r \in ArrowIds |-> None], popups |-> <<>>, cmd |-> <<>>,
              cursor |-> None, middle |-> FALSE]]

Init ==
  /\ mapLoaded = FALSE
  /\ aes = <<>>
  /\ axes = <<>>
  /\ hists = <<>>
  /\ cmdAxes = <<>>
  /\ cmdHists = <<>>
  /\ ui = Constructed.ui
  /\ ran = {}
  /\ scene = Constructed.scene
  /\ map = [file |-> NoPositions, hists |-> NoPositions, saves |-> 0]
  /\ hover = Constructed.hover

\* ------------------------------------------------------------ environment
\* load_map: the map asset becomes available and the arrows are spawned.
LoadMap ==
  /\ ran = {}
  /\ ~mapLoaded
  /\ mapLoaded' = TRUE
  /\ map' = [map EXCEPT !.hists = map.file]
  /\ UNCHANGED <<hover, scene, aes, axes, hists, cmdAxes, cmdHists, ui, ran>>

\* The data loader spawns one binding of `pool` between two ticks; the
\* systems see it from the next tick on.
LoadData(pool) ==
  /\ ran = {}
  /\ Len(aes) < MaxBindings
  /\ \E p \in pool :
       /\ \A i \in 1..Len(aes) : aes[i].src # p
       /\ aes' = Append(aes, [src |-> p, in_axis |-> FALSE, rendered |-> FALSE])
  /\ UNCHANGED <<map, hover, scene, mapLoaded, axes, hists, cmdAxes, cmdHists, ui, ran>>

\* A new dataset is opened: the loader removes what was plotted from the
\* previous one (its bindings, axes and encodings) and then spawns the new
\* bindings, as LoadData does.
ReloadData ==
  /\ ran = {}
  /\ aes # <<>>
  /\ aes' = <<>>
  /\ axes' = <<>>
  /\ hists' = <<>>
  /\ UNCHANGED <<map, hover, scene, mapLoaded, cmdAxes, cmdHists, ui, ran>>

\* ------------------------------------------------------------ build_axes
\* The ArrowTag entities the queries see.
Arrows == IF mapLoaded THEN ArrowIds ELSE {}

\* A build_axes without the match on geom.side.
MatchedArrowsAnySide(b) ==
  {r \in Arrows : /\ Position(b.identifiers, r) # 0
                  /\ Position(b.identifiers, r) <= Len(b.data)}

\* The arrows of the inner loop that reach the axis entry for binding b: the
\* identifier is listed, a distribution exists at its index, and the side is
\* Left or Right (Up is skipped with a warning).
MatchedArrows(b) ==
  {r \in Arrows : /\ Position(b.identifiers, r) # 0
                  /\ Position(b.identifiers, r) <= Len(b.data)
                  /\ b.side \in {Left, Right}}

\* axis_entry.0.xlimits = (min(old.0, new.0), max(old.1, new.1))
XlimitsUnion(old, new) == <<F32Min(old[1], new[1]), F32Max(old[2], new[2])>>

\* axes.entry(id).entry(side).or_insert(Xaxis {..}) followed by the range
\* union and the push of the condition, for the binding of Pool[p] and arrow
\* r. srcs records which bindings the pass merged into the axis.
DistAxisEntry(acc, p, r) ==
  LET b == Pool[p]
      k == <<r, b.side>>
      this_dist == b.data[Position(b.identifiers, r)]
      xlimits == <<min_f32(this_dist), max_f32(this_dist)>>
      entry == IF k \in DOMAIN acc THEN acc[k]
               ELSE [id |-> r, side |-> b.side, xlimits |-> xlimits,
                     plot |-> b.plot, conditions |-> <<>>, unscale |-> FALSE,
                     srcs |-> {}, arrow_size |-> PathLength[r],
                     transform |-> AxisTransform(r, b.side),
                     dragged |-> FALSE, changed |-> TRUE]
      updated == [entry EXCEPT
                    !.xlimits = XlimitsUnion(entry.xlimits, xlimits),
                    !.conditions = IF b.condition # NoCond
                                   THEN Append(@, b.condition) ELSE @,
                    !.srcs = @ \cup {p}]
  IN [kk \in (DOMAIN acc) \cup {k} |-> IF kk = k THEN updated ELSE acc[kk]]

RECURSIVE DistArrowLoop(_, _, _)
DistArrowLoop(acc, p, rs) ==
  IF rs = {} THEN acc
  ELSE LET r == CHOOSE x \in rs : TRUE
       IN DistArrowLoop(DistAxisEntry(acc, p, r), p, rs \ {r})

\* A build_axes that lacks the in_axis guard.
NeverSkips(a) == FALSE

\* if geom.in_axis { continue; }
SkipsAggregated(a) == a.in_axis

\* The outer loop of build_axes over the Distribution bindings from index i
\* on; acc is the local map `axes`.
RECURSIVE BuildAxesLoop(_, _)
BuildAxesLoop(i, acc) ==
  IF i > Len(aes) THEN acc
  ELSE IF Present(i).kind # Dist \/ SkipsAggregated(aes[i])
       THEN BuildAxesLoop(i + 1, acc)
       ELSE BuildAxesLoop(i + 1,
              DistArrowLoop(acc, aes[i].src, MatchedArrows(Present(i))))

\* geom.in_axis = true for every binding the pass inserted or updated an
\* axis for.
MarkInAxis(kind) ==
  [i \in 1..Len(aes) |->
     IF /\ Present(i).kind = kind
        /\ ~aes[i].in_axis
        /\ MatchedArrows(Present(i)) # {}
     THEN [aes[i] EXCEPT !.in_axis = TRUE]
     ELSE aes[i]]

\* commands.spawn(axis) for each value of the local map, in the map's
\* (arbitrary) iteration order.
SpawnAxes(acc) ==
  \E order \in Perms(DOMAIN acc) :
    cmdAxes' = cmdAxes \o [j \in 1..Len(order) |-> acc[order[j]]]

build_axes ==
  /\ "build_axes" \notin ran
  /\ ran' = ran \cup {"build_axes"}
  /\ SpawnAxes(BuildAxesLoop(1, <<>>))
  /\ aes' = MarkInAxis(Dist)
  /\ UNCHANGED <<map, hover, scene, mapLoaded, axes, hists, cmdHists, ui>>

\* ------------------------------------------------------ build_point_axes
PointMatchedArrows(b) ==
  {r \in Arrows : /\ \E i \in 1..Len(b.identifiers) : b.identifiers[i] = r
                  /\ b.side \in {Left, Right}}

PointAxisEntry(acc, p, r) ==
  LET b == Pool[p]
      k == <<r, b.side>>
      entry == IF k \in DOMAIN acc THEN acc[k]
               ELSE [id |-> r, side |-> b.side, xlimits |-> <<Num(0), Num(0)>>,
                     plot |-> b.plot, conditions |-> <<>>, unscale |-> TRUE,
                     srcs |-> {}, arrow_size |-> PathLength[r],
                     transform |-> AxisTransform(r, b.side),
                     dragged |-> FALSE, changed |-> TRUE]
      updated == [entry EXCEPT
                    !.conditions = IF b.condition # NoCond
                                   THEN Append(@, b.condition) ELSE @,
                    !.srcs = @ \cup {p}]
  IN [kk \in (DOMAIN acc) \cup {k} |-> IF kk = k THEN updated ELSE acc[kk]]

RECURSIVE PointArrowLoop(_, _, _)
PointArrowLoop(acc, p, rs) ==
  IF rs = {} THEN acc
  ELSE LET r == CHOOSE x \in rs : TRUE
       IN PointArrowLoop(PointAxisEntry(acc, p, r), p, rs \ {r})

RECURSIVE BuildPointAxesLoop(_, _)
BuildPointAxesLoop(i, acc) ==
  IF i > Len(aes) THEN acc
  ELSE IF Present(i).kind # Point \/ SkipsAggregated(aes[i])
       THEN BuildPointAxesLoop(i + 1, acc)
       ELSE BuildPointAxesLoop(i + 1,
              PointArrowLoop(acc, aes[i].src, PointMatchedArrows(Present(i))))

MarkPointInAxis ==
  [i \in 1..Len(aes) |->
     IF /\ Present(i).kind = Point
        /\ ~aes[i].in_axis
        /\ PointMatchedArrows(Present(i)) # {}
     THEN [aes[i] EXCEPT !.in_axis = TRUE]
     ELSE aes[i]]

build_point_axes ==
  /\ "build_point_axes" \notin ran
  /\ ran' = ran \cup {"build_point_axes"}
  /\ SpawnAxes(BuildPointAxesLoop(1, <<>>))
  /\ aes' = MarkPointInAxis
  /\ UNCHANGED <<map, hover, scene, mapLoaded, axes, hists, cmdHists, ui>>

\* ------------------------------------------------------------- plot_hist
NoGeometry == [some |-> FALSE, height |-> 0]

\* The bin of sample x among `bins` equal bins over [lo, hi]; the upper
\* limit falls in the last bin.
BinOf(x, bins, lo, hi) ==
  IF ((x - lo) * bins) \div (hi - lo) >= bins THEN bins - 1
  ELSE ((x - lo) * bins) \div (hi - lo)

\* funcplot::plot_hist: None for an empty sample set or a degenerate range,
\* otherwise the polyline of the bin counts; only its maximum height is kept.
plot_hist(samples, bins, xlimits) ==
  IF samples = <<>> \/ xlimits[1] = NaN \/ xlimits[2] = NaN THEN NoGeometry
  ELSE IF xlimits[1][1] >= xlimits[2][1] THEN NoGeometry
  ELSE LET lo == xlimits[1][1]
           hi == xlimits[2][1]
           inside == {i \in 1..Len(samples) : samples[i] >= lo /\ samples[i] <= hi}
           count(k) == Cardinality({i \in inside : BinOf(samples[i], bins, lo, hi) = k})
           used == {BinOf(samples[i], bins, lo, hi) : i \in inside}
       IN [some |-> TRUE,
           height |-> IF used = {} THEN 0
                      ELSE CHOOSE h \in {count(k) : k \in used} :
                             \A k \in used : count(k) <= h]

\* ------------------------------------------------------------ plot_side_hist
\* .position(|r| (r == &axis.id) & (geom.side == axis.side))
AxisPosition(b, axis) ==
  IF b.side = axis.side THEN Position(b.identifiers, axis.id) ELSE 0

\* The HistTag entity spawned for binding aes[i] against axes[j]; src and
\* axis record which binding and which Xaxis entity it was drawn from.
HistEntity(i, j, height) ==
  [side |-> Present(i).side, condition |-> Present(i).condition,
   node_id |-> axes[j].id, unscale |-> FALSE, children |-> TRUE,
   height |-> height, scale_y |-> One, child_scale_y |-> One,
   visibility |-> Visible, src |-> aes[i].src, axis |-> j,
   transform |-> axes[j].transform]

\* A plot_side_hist that draws a BoxPoint request as a histogram.
AcceptsBoxPoint(b) == FALSE

\* HistPlot::BoxPoint => { warn!(..); continue 'outer; }
RejectsBoxPoint(b) == b.plot = BoxPoint

\* The loop over the Xaxis entities for binding aes[i], from axis j on.
\* st.rendered is geom.rendered, st.out the spawns queued so far;
\* geom.rendered = true closes the body of the loop, outside the
\* `if let Some(index)` block.
\* `continue 'outer` ends the loop; a plain `continue` skips to the next axis.
RECURSIVE HistAxisLoop(_, _, _)
HistAxisLoop(i, j, st) ==
  IF j > Len(axes) THEN st
  ELSE LET b == Present(i)
           index == AxisPosition(b, axes[j])
           line == plot_hist(b.data[index], HistBins, axes[j].xlimits)
       IN IF index = 0
          THEN HistAxisLoop(i, j + 1, [st EXCEPT !.rendered = TRUE])
          ELSE IF index > Len(b.data) THEN HistAxisLoop(i, j + 1, st)
          ELSE IF RejectsBoxPoint(b) THEN st
          ELSE IF ~line.some THEN st
          ELSE IF b.side \notin {Left, Right} THEN HistAxisLoop(i, j + 1, st)
          ELSE HistAxisLoop(i, j + 1,
                 [rendered |-> TRUE,
                  out |-> Append(st.out, HistEntity(i, j, line.height))])

\* The result of the loop over the axes for every Distribution binding that
\* is not rendered yet.
HistPass ==
  [i \in 1..Len(aes) |->
     IF Present(i).kind = Dist /\ ~aes[i].rendered
     THEN HistAxisLoop(i, 1, [rendered |-> FALSE, out |-> <<>>])
     ELSE [rendered |-> aes[i].rendered, out |-> <<>>]]

RECURSIVE Flatten(_, _)
Flatten(f, i) == IF i > Len(f) THEN <<>> ELSE f[i].out \o Flatten(f, i + 1)

plot_side_hist ==
  /\ "plot_side_hist" \notin ran
  /\ ran' = ran \cup {"plot_side_hist"}
  /\ aes' = [i \in 1..Len(aes) |-> [aes[i] EXCEPT !.rendered = HistPass[i].rendered]]
  /\ cmdHists' = cmdHists \o Flatten(HistPass, 1)
  /\ UNCHANGED <<map, hover, scene, mapLoaded, axes, hists, cmdAxes, ui>>

\* ------------------------------------------------------------ plot_side_box
\* The box-point entity spawned for binding aes[i] against axes[j]: a HistTag
\* with the Unscale marker and no children.
\* axis.conditions.iter().position(|x| x == condition or "").unwrap_or(0):
\* the slot (from 0) plot_box_point is asked for.
BoxSlot(conditions, condition) ==
  IF Position(conditions, IF condition = NoCond THEN "" ELSE condition) = 0 THEN 0
  ELSE Position(conditions, IF condition = NoCond THEN "" ELSE condition) - 1

\* How many of the bindings aes[1..i] a pass of plot_side_box draws on
\* axes[j]: each of them runs trans.translation.z += 10. on the Transform of
\* the Xaxis.
BoxDraws(i, j) ==
  Cardinality({n \in 1..i : /\ Present(n).kind = Point
                            /\ ~aes[n].rendered
                            /\ axes[j].unscale
                            /\ AxisPosition(Present(n), axes[j]) # 0})

\* *trans after the bindings aes[1..i] have been drawn on axes[j].
Raised(i, j) ==
  [axes[j].transform EXCEPT !.z10 = @ + 100 * BoxDraws(i, j)]

BoxEntity(i, j) ==
  [side |-> Present(i).side, condition |-> Present(i).condition,
   node_id |-> axes[j].id, unscale |-> TRUE, children |-> FALSE,
   height |-> 0, scale_y |-> One, child_scale_y |-> One,
   visibility |-> Visible, src |-> aes[i].src, axis |-> j,
   transform |-> Raised(i, j),
   slots |-> Len(axes[j].conditions),
   slot |-> BoxSlot(axes[j].conditions, Present(i).condition)]

\* The loop over the Xaxis entities With<Unscale> for binding aes[i].
RECURSIVE BoxAxisLoop(_, _, _)
BoxAxisLoop(i, j, st) ==
  IF j > Len(axes) THEN st
  ELSE IF ~axes[j].unscale THEN BoxAxisLoop(i, j + 1, st)
  ELSE IF AxisPosition(Present(i), axes[j]) = 0
       THEN BoxAxisLoop(i, j + 1, [st EXCEPT !.rendered = TRUE])
       ELSE BoxAxisLoop(i, j + 1,
              [rendered |-> TRUE, out |-> Append(st.out, BoxEntity(i, j))])

BoxPass ==
  [i \in 1..Len(aes) |->
     IF Present(i).kind = Point /\ ~aes[i].rendered
     THEN BoxAxisLoop(i, 1, [rendered |-> FALSE, out |-> <<>>])
     ELSE [rendered |-> aes[i].rendered, out |-> <<>>]]

\* A plot_side_box that also resets the range of the axis it draws on.
DrawnOnAndReset(j) ==
  [axes[j] EXCEPT !.transform = Raised(Len(aes), j), !.changed = TRUE,
                  !.xlimits = <<Num(0), Num(1)>>]

\* The Xaxis entity axes[j] after a pass that drew on it: the query holds
\* &mut Transform and &Xaxis, so only the Transform is written.
DrawnOn(j) ==
  [axes[j] EXCEPT !.transform = Raised(Len(aes), j), !.changed = TRUE]

plot_side_box ==
  /\ "plot_side_box" \notin ran
  /\ ran' = ran \cup {"plot_side_box"}
  /\ aes' = [i \in 1..Len(aes) |-> [aes[i] EXCEPT !.rendered = BoxPass[i].rendered]]
  /\ cmdHists' = cmdHists \o Flatten(BoxPass, 1)
  /\ axes' = [j \in 1..Len(axes) |->
                IF BoxDraws(Len(aes), j) = 0 THEN axes[j] ELSE DrawnOn(j)]
  /\ UNCHANGED <<map, hover, scene, mapLoaded, hists, cmdAxes, ui>>

\* ------------------------------------------- normalize_histogram_height
\* A normalizer that scales every side to the left target.
SideTargetAllLeft(side) == ui.max_left

\* match hist.side { Left => max_left, Right => max_right, Up => max_top }
SideTarget(side) ==
  IF side = Left THEN ui.max_left
  ELSE IF side = Right THEN ui.max_right
  ELSE ui.max_top

\* A normalizer whose query lacks the Without<Unscale> filter.
NormalizesAll(h) == TRUE

\* Query<.., &HistTag), Without<Unscale>>
Normalized(h) == ~h.unscale

normalize_histogram_height ==
  /\ "normalize_histogram_height" \notin ran
  /\ ran' = ran \cup {"normalize_histogram_height"}
  /\ hists' = [k \in 1..Len(hists) |->
                 IF Normalized(hists[k])
                 THEN [hists[k] EXCEPT
                         !.scale_y = Ratio(SideTarget(hists[k].side), hists[k].height)]
                 ELSE hists[k]]
  /\ UNCHANGED <<map, hover, scene, mapLoaded, aes, axes, cmdAxes, cmdHists, ui>>

\* ------------------------------------------- unscale_histogram_children
unscale_histogram_children ==
  /\ "unscale_histogram_children" \notin ran
  /\ ran' = ran \cup {"unscale_histogram_children"}
  /\ hists' = [k \in 1..Len(hists) |->
                 IF hists[k].children
                 THEN [hists[k] EXCEPT !.child_scale_y = Recip(hists[k].scale_y)]
                 ELSE hists[k]]
  /\ UNCHANGED <<map, hover, scene, mapLoaded, aes, axes, cmdAxes, cmdHists, ui>>

\* ------------------------------------------------------- fill_conditions
\* A scan of the bindings that lacks .unique().
RECURSIVE EveryCondition(_, _)
EveryCondition(i, acc) ==
  IF i > Len(aes) THEN acc
  ELSE IF Present(i).condition = NoCond THEN EveryCondition(i + 1, acc)
       ELSE EveryCondition(i + 1, Append(acc, Present(i).condition))

\* .filter_map(|a| a.condition.clone()).unique()
RECURSIVE UniqueConditions(_, _)
UniqueConditions(i, acc) ==
  IF i > Len(aes) THEN acc
  ELSE IF Present(i).condition = NoCond \/ Present(i).condition \in SeqToSet(acc)
       THEN UniqueConditions(i + 1, acc)
       ELSE UniqueConditions(i + 1, Append(acc, Present(i).condition))

\* A fill_conditions that selects the first condition whenever it rebuilds
\* the list.
FilledSelectsFirst ==
  LET conditions == UniqueConditions(1, <<>>)
      stale == \E i \in 1..Len(conditions) : conditions[i] \notin SeqToSet(ui.conditions)
      filled == IF ALL \in SeqToSet(conditions) THEN conditions
                ELSE Append(conditions, ALL)
  IN IF stale THEN [ui EXCEPT !.conditions = filled, !.condition = filled[1]]
     ELSE ui

\* The body of fill_conditions: the new UiState.
FilledConditions ==
  LET conditions == UniqueConditions(1, <<>>)
      stale == \E i \in 1..Len(conditions) : conditions[i] \notin SeqToSet(ui.conditions)
      filled == IF conditions # <<>>
                THEN IF ALL \in SeqToSet(conditions) THEN conditions
                     ELSE Append(conditions, ALL)
                ELSE <<"">>
      cleared == IF conditions # <<>> THEN ui.condition ELSE ""
  IN IF stale
     THEN [ui EXCEPT !.conditions = filled,
                     !.condition = IF cleared = "" THEN filled[1] ELSE cleared]
     ELSE ui

fill_conditions ==
  /\ "fill_conditions" \notin ran
  /\ ran' = ran \cup {"fill_conditions"}
  /\ ui' = FilledConditions
  /\ UNCHANGED <<map, hover, scene, mapLoaded, aes, axes, hists, cmdAxes, cmdHists>>

\* ----------------------------------------------------- filter_histograms
\* A filter that does not treat "ALL" specially.
HiddenUnlessActive(condition, active) == condition # active

\* (condition != &ui_state.condition) & (ui_state.condition != "ALL")
HiddenBy(condition, active) == condition # active /\ active # ALL

FilteredVisibility(h) ==
  IF h.condition # NoCond
  THEN IF HiddenBy(h.condition, ui.condition) THEN Invisible ELSE Visible
  ELSE h.visibility

filter_histograms ==
  /\ "filter_histograms" \notin ran
  /\ ran' = ran \cup {"filter_histograms"}
  /\ hists' = [k \in 1..Len(hists) |->
                 [hists[k] EXCEPT !.visibility = FilteredVisibility(hists[k])]]
  /\ UNCHANGED <<map, hover, scene, mapLoaded, aes, axes, cmdAxes, cmdHists, ui>>

\* ----------------------------------------------------------- ui_settings
\* The positions the "left" / "right" / "top" sliders can be moved to.
SliderValues == {DefaultSideMax, OtherSideMax}

\* UiState::get_geom_params_mut(side, _).1: the field the slider of `side`
\* writes.
SliderField(side) ==
  IF side = "left" THEN "max_left"
  ELSE IF side = "right" THEN "max_left"
  ELSE "max_left"

\* The ComboBox is shown unless the only known condition is the empty one.
ComboBoxShown ==
  /\ Len(ui.conditions) > 0
  /\ ~(ui.conditions[1] = "" /\ Len(ui.conditions) = 1)

\* An or_color that stores Rgba::default() under a new key.
or_default(key, m) ==
  IF key \in DOMAIN m THEN m ELSE Stored(m, key, Transparent)

\* or_color(key, map): the map after the call; the reference returned is
\* the entry at key.
or_color(key, m) ==
  IF key \in DOMAIN m THEN m ELSE Stored(m, key, m[""])

\* The three histogram rows of the window: get_geom_params_mut(side,
\* &condition) looks the colour of the active condition up on every side.
Shown ==
  [ui EXCEPT !.color = [side \in {Left, Right, Up} |->
                          or_color(ui.condition, ui.color[side])]]

\* The side whose colour map the row `side` of the window edits.
ColorSide(side) ==
  IF side = "left" THEN Left ELSE IF side = "right" THEN Right ELSE Up

\* One pass of the settings window in which the user touches nothing.
ui_settings_idle ==
  /\ "ui_settings" \notin ran
  /\ ran' = ran \cup {"ui_settings"}
  /\ ui' = Shown
  /\ UNCHANGED <<map, hover, scene, mapLoaded, aes, axes, hists, cmdAxes, cmdHists>>

\* One pass in which the user picks a colour with the button of one side,
\* for a condition whose colour an earlier pass has shown.
ui_settings_color ==
  /\ "ui_settings" \notin ran
  /\ ran' = ran \cup {"ui_settings"}
  /\ \E side \in {"left", "right", "top"} :
       /\ ui.condition \in DOMAIN ui.color[ColorSide(side)]
       /\ ui' = [Shown EXCEPT !.color[ColorSide(side)][ui.condition] = Picked]
  /\ UNCHANGED <<map, hover, scene, mapLoaded, aes, axes, hists, cmdAxes, cmdHists>>

\* One pass in which the user moves one of the three histogram sliders.
ui_settings_slider ==
  /\ "ui_settings" \notin ran
  /\ ran' = ran \cup {"ui_settings"}
  /\ \E side \in {"left", "right", "top"}, v \in SliderValues :
       ui' = [Shown EXCEPT ![SliderField(side)] = v]
  /\ UNCHANGED <<map, hover, scene, mapLoaded, aes, axes, hists, cmdAxes, cmdHists>>

\* One pass in which the user picks a condition in the ComboBox.
ui_settings_condition ==
  /\ "ui_settings" \notin ran
  /\ ran' = ran \cup {"ui_settings"}
  /\ ComboBoxShown
  /\ \E c \in SeqToSet(ui.conditions) : ui' = [Shown EXCEPT !.condition = c]
  /\ UNCHANGED <<map, hover, scene, mapLoaded, aes, axes, hists, cmdAxes, cmdHists>>

\* ------------------------------------------------------ arrow channels
\* funcplot::lerp: the affine map of t from [min_1, max_1] to [min_2, max_2];
\* NaN (0/0) or infinity when max_1 = min_1.
lerp(t, min_1, max_1, min_2, max_2) ==
  IF min_1 = NaN \/ max_1 = NaN THEN Ratio(0, 0)
  ELSE IF max_1[1] = min_1[1]
       THEN Ratio(IF t = min_1[1] THEN 0 ELSE 1, 0)
       ELSE Ratio((t - min_1[1]) * (max_2 - min_2) + min_2 * (max_1[1] - min_1[1]),
                  max_1[1] - min_1[1])

\* (colors.0[index] - min_val) / (max_val - min_val)
ColorParam(x, min_val, max_val) ==
  IF min_val = NaN \/ max_val = NaN THEN Ratio(0, 0)
  ELSE Ratio(x - min_val[1], max_val[1] - min_val[1])

\* funcplot::lerp_hsv(t, min_color, max_color), kept symbolic in t.
lerp_hsv(t) == [kind |-> "hsv", t |-> t]

\* Color::rgb(0.85, 0.85, 0.85)
Grey == [kind |-> "grey", t |-> Ratio(0, 1)]

\* if let Some(condition) = &aes.condition
\*     { if condition != &ui_state.condition { continue; } }
Active(condition, active) == condition = NoCond \/ condition = active

\* The loop over the arrows for one binding b of plot_arrow_color.
ArrowColors(b, stroke) ==
  [r \in ArrowIds |->
     IF r \notin Arrows THEN stroke[r]
     ELSE IF Position(b.identifiers, r) # 0
     THEN [stroke[r] EXCEPT
             !.color = lerp_hsv(ColorParam(b.data[Position(b.identifiers, r)],
                                           min_f32(b.data), max_f32(b.data)))]
     ELSE [stroke[r] EXCEPT !.color = Grey]]

\* A plot_arrow_size that hands lerp the destination bounds the wrong way
\* round.
ArrowWidthsSwapped(b, stroke) ==
  [r \in ArrowIds |->
     IF r \notin Arrows THEN stroke[r]
     ELSE IF Position(b.identifiers, r) # 0
     THEN [stroke[r] EXCEPT
             !.width = lerp(b.data[Position(b.identifiers, r)],
                            min_f32(b.data), max_f32(b.data),
                            MaxReaction, MinReaction)]
     ELSE [stroke[r] EXCEPT !.width = Ratio(DefaultWidth, 1)]]

\* The loop over the arrows for one binding b of plot_arrow_size.
ArrowWidths(b, stroke) ==
  [r \in ArrowIds |->
     IF r \notin Arrows THEN stroke[r]
     ELSE IF Position(b.identifiers, r) # 0
     THEN [stroke[r] EXCEPT
             !.width = lerp(b.data[Position(b.identifiers, r)],
                            min_f32(b.data), max_f32(b.data),
                            MinReaction, MaxReaction)]
     ELSE [stroke[r] EXCEPT !.width = Ratio(DefaultWidth, 1)]]

\* The loop over the bindings of a channel, from binding i on.
RECURSIVE ArrowLoop(_, _, _)
ArrowLoop(channel, i, stroke) ==
  IF i > Len(aes) THEN stroke
  ELSE IF Present(i).kind # channel \/ ~Active(Present(i).condition, ui.condition)
       THEN ArrowLoop(channel, i + 1, stroke)
       ELSE ArrowLoop(channel, i + 1,
              IF channel = ArrowColor THEN ArrowColors(Present(i), stroke)
              ELSE ArrowWidths(Present(i), stroke))

plot_arrow_color ==
  /\ "plot_arrow_color" \notin ran
  /\ ran' = ran \cup {"plot_arrow_color"}
  /\ scene' = [scene EXCEPT !.stroke = ArrowLoop(ArrowColor, 1, scene.stroke)]
  /\ UNCHANGED <<map, hover, mapLoaded, aes, axes, hists, cmdAxes, cmdHists, ui>>

plot_arrow_size ==
  /\ "plot_arrow_size" \notin ran
  /\ ran' = ran \cup {"plot_arrow_size"}
  /\ scene' = [scene EXCEPT !.stroke = ArrowLoop(ArrowSize, 1, scene.stroke)]
  /\ UNCHANGED <<map, hover, mapLoaded, aes, axes, hists, cmdAxes, cmdHists, ui>>

\* ---------------------------------------------------- metabolite colour
\* The CircleTag entities the queries see.
Circles == IF mapLoaded THEN CircleIds ELSE {}

\* The loop over the circles for one binding b of plot_metabolite_color.
CircleColors(b, fill) ==
  [c \in CircleIds |->
     IF c \notin Circles THEN fill[c]
     ELSE IF Position(b.identifiers, c) # 0
     THEN lerp_hsv(ColorParam(b.data[Position(b.identifiers, c)],
                              min_f32(b.data), max_f32(b.data)))
     ELSE Grey]

\* The loop over the bindings With<GeomMetabolite> and With<Gcolor>, from
\* binding i on: the condition of a binding is not looked at.
RECURSIVE CircleLoop(_, _)
CircleLoop(i, fill) ==
  IF i > Len(aes) THEN fill
  ELSE IF Present(i).kind # CircleColor THEN CircleLoop(i + 1, fill)
  ELSE CircleLoop(i + 1, CircleColors(Present(i), fill))

plot_metabolite_color ==
  /\ "plot_metabolite_color" \notin ran
  /\ ran' = ran \cup {"plot_metabolite_color"}
  /\ scene' = [scene EXCEPT !.fill = CircleLoop(1, scene.fill)]
  /\ UNCHANGED <<map, hover, mapLoaded, aes, axes, hists, cmdAxes, cmdHists, ui>>

\* -------------------------------------------------------- colour legends
\* format!("{:.2e}", x) for the values the datasets hold (0 <= x < 100):
\* three significant digits and the decimal exponent.
Fmt2e(x) ==
  IF x = NaN THEN [text |-> "NaN", mant |-> 0, exp |-> 0]
  ELSE IF x[1] < 10 THEN [text |-> "e", mant |-> x[1] * 100, exp |-> 0]
  ELSE [text |-> "e", mant |-> x[1] * 10, exp |-> 1]

\* grad.at(points[x]).to_rgba8() for build_grad(zero_white, min_val, max_val,
\* min_color, max_color) and linspace(min_val, max_val, width): a colour
\* that depends on the range and the column, with the alpha of the (opaque)
\* channel colours.
GradPixel(x, min_val, max_val) ==
  [rgb |-> <<min_val, max_val, Num(x)>>, a |-> Opaque]

\* A regeneration that paints every pixel.
NeverMasked(pixel) == FALSE

\* pixel[3] != 0 fails: the pixel is transparent
Masked(pixel) == pixel.a = 0

\* image.data.chunks(4).enumerate().flat_map(..): pixel i (from 0) lies in
\* column x = i - width * floor(i / width).
Regenerated(image, min_val, max_val) ==
  [image EXCEPT
     !.data = [n \in 1..Len(image.data) |->
                 IF Masked(image.data[n]) THEN ClearPixel
                 ELSE GradPixel((n - 1) - image.width * ((n - 1) \div image.width),
                                min_val, max_val)]]

\* The markers of the bindings a legend is about: (With<Gcolor>,
\* With<GeomArrow>) and (With<Gcolor>, With<GeomMetabolite>).
LegendChannel(k) == IF k = "arrow" THEN ArrowColor ELSE CircleColor

\* A legend that stays collapsed for bindings of other conditions.
NeverShowsSkipped(active) == FALSE

\* if ui_state.condition == "ALL" { displayed = Display::Flex; }
ShowsSkipped(active) == active = ALL

\* The loop over the bindings of legend k from binding i on; st is the
\* legend with `displayed` in st.display.
RECURSIVE LegendLoop(_, _, _)
LegendLoop(k, i, st) ==
  IF i > Len(aes) THEN st
  ELSE LET b == Present(i)
       IN IF b.kind # LegendChannel(k) THEN LegendLoop(k, i + 1, st)
          ELSE IF ~Active(b.condition, ui.condition)
          THEN LegendLoop(k, i + 1,
                 IF ShowsSkipped(ui.condition)
                 THEN [st EXCEPT !.display = "Flex"] ELSE st)
          ELSE LegendLoop(k, i + 1,
                 [display |-> "Flex",
                  xmin |-> Fmt2e(min_f32(b.data)),
                  xmax |-> Fmt2e(max_f32(b.data)),
                  image |-> Regenerated(st.image, min_f32(b.data), max_f32(b.data))])

\* let mut displayed = Display::None; ..; style.display = displayed;
LegendPass(k) == LegendLoop(k, 1, [scene.legend[k] EXCEPT !.display = "None"])

color_legend_arrow ==
  /\ "color_legend_arrow" \notin ran
  /\ ran' = ran \cup {"color_legend_arrow"}
  /\ scene' = [scene EXCEPT !.legend["arrow"] = LegendPass("arrow")]
  /\ UNCHANGED <<map, hover, mapLoaded, aes, axes, hists, cmdAxes, cmdHists, ui>>

color_legend_circle ==
  /\ "color_legend_circle" \notin ran
  /\ ran' = ran \cup {"color_legend_circle"}
  /\ scene' = [scene EXCEPT !.legend["circle"] = LegendPass("circle")]
  /\ UNCHANGED <<map, hover, mapLoaded, aes, axes, hists, cmdAxes, cmdHists, ui>>

\* ---------------------------------------------------------- side legends
\* A gathering that looks at the left side only.
GatheredLeftOnly(side) ==
  IF side = Left /\ \E j \in 1..Len(axes) : ~axes[j].unscale /\ axes[j].side = side
  THEN LET j == CHOOSE n \in 1..Len(axes) :
                  /\ ~axes[n].unscale /\ axes[n].side = side
                  /\ \A n2 \in 1..(n - 1) : axes[n2].unscale \/ axes[n2].side # side
       IN Some([xlimits |-> axes[j].xlimits,
                display |-> \E i \in 1..Len(aes) :
                              Present(i).kind = Dist /\ Present(i).side = side])
  ELSE None

\* `left` / `right` of color_legend_histograms: the limits of the first
\* Xaxis Without<Unscale> of the side, and whether a distribution binding of
\* that side exists.
Gathered(side) ==
  IF \E j \in 1..Len(axes) : ~axes[j].unscale /\ axes[j].side = side
  THEN LET j == CHOOSE n \in 1..Len(axes) :
                  /\ ~axes[n].unscale /\ axes[n].side = side
                  /\ \A n2 \in 1..(n - 1) : axes[n2].unscale \/ axes[n2].side # side
       IN Some([xlimits |-> axes[j].xlimits,
                display |-> \E i \in 1..Len(aes) :
                              Present(i).kind = Dist /\ Present(i).side = side])
  ELSE None

\* The body of the loop over the legends for the gathered entry of
\* axis_side: st.legend are the legends, st.color the colour maps.
HistLegendStep(axis_side, st) ==
  IF Gathered(axis_side) = None THEN st
  ELSE LET entry == Gathered(axis_side)[1]
       IN IF ~entry.display
          THEN [st EXCEPT !.legend = [side \in LegendSides |->
                                        [st.legend[side] EXCEPT !.display = "None"]]]
          ELSE [legend |-> [st.legend EXCEPT
                              ![axis_side] =
                                [display |-> "Flex",
                                 xmin |-> Fmt2e(entry.xlimits[1]),
                                 xmax |-> Fmt2e(entry.xlimits[2]),
                                 color |-> or_default(ui.condition,
                                                      st.color[axis_side])[ui.condition]]],
                color |-> [st.color EXCEPT
                             ![axis_side] = or_default(ui.condition, st.color[axis_side])]]

\* for .. in [left, right].iter().filter_map(|o| o.as_ref())
HistLegendPass ==
  HistLegendStep(Right, HistLegendStep(Left, [legend |-> scene.hist, color |-> ui.color]))

color_legend_histograms ==
  /\ "color_legend_histograms" \notin ran
  /\ ran' = ran \cup {"color_legend_histograms"}
  /\ scene' = [scene EXCEPT !.hist = HistLegendPass.legend]
  /\ ui' = [ui EXCEPT !.color = HistLegendPass.color]
  /\ UNCHANGED <<map, hover, mapLoaded, aes, axes, hists, cmdAxes, cmdHists>>

\* What the loop of color_legend_box does with binding b for the legend of
\* `side`: "show" sets displayed only, "skip" does nothing, "draw" sets
\* displayed, the labels and the gradient.
BoxSkipped(b, active, side) ==
  IF b.condition # NoCond /\ b.condition # active
  THEN IF active = ALL THEN "show" ELSE "skip"
  ELSE IF b.side # side THEN "skip"
  ELSE "draw"

\* The loop over the Point bindings for the box legend of `side`.
RECURSIVE BoxLegendLoop(_, _, _)
BoxLegendLoop(side, i, st) ==
  IF i > Len(aes) THEN st
  ELSE LET b == Present(i)
       IN IF b.kind # Point THEN BoxLegendLoop(side, i + 1, st)
          ELSE IF BoxSkipped(b, ui.condition, side) = "skip"
          THEN BoxLegendLoop(side, i + 1, st)
          ELSE IF BoxSkipped(b, ui.condition, side) = "show"
          THEN BoxLegendLoop(side, i + 1, [st EXCEPT !.display = "Flex"])
          ELSE BoxLegendLoop(side, i + 1,
                 [display |-> "Flex",
                  xmin |-> Fmt2e(min_f32(b.data)),
                  xmax |-> Fmt2e(max_f32(b.data)),
                  image |-> Regenerated(st.image, min_f32(b.data), max_f32(b.data))])

color_legend_box ==
  /\ "color_legend_box" \notin ran
  /\ ran' = ran \cup {"color_legend_box"}
  /\ scene' = [scene EXCEPT
                 !.box = [side \in LegendSides |->
                            BoxLegendLoop(side, 1,
                              [scene.box[side] EXCEPT !.display = "None"])]]
  /\ UNCHANGED <<map, hover, mapLoaded, aes, axes, hists, cmdAxes, cmdHists, ui>>

\* ------------------------------------------------------------- popups
\* The Hover entities load_map spawns: one per arrow, at the arrow.
Hovers == IF mapLoaded THEN ArrowIds ELSE {}

\* The limits build_hover_axes gathers for Hover r over the PopUp bindings
\* that are not aggregated yet; None when no binding lists r.
HoverLimits(r) ==
  LET on == {i \in 1..Len(aes) :
               /\ Present(i).kind = PopUp
               /\ ~aes[i].in_axis
               /\ Position(Present(i).identifiers, r) # 0
               /\ Position(Present(i).identifiers, r) <= Len(Present(i).data)}
      RECURSIVE Union(_, _)
      Union(S, acc) ==
        IF S = {} THEN acc
        ELSE LET i == CHOOSE x \in S : TRUE
                 d == Present(i).data[Position(Present(i).identifiers, r)]
             IN Union(S \ {i}, XlimitsUnion(acc, <<min_f32(d), max_f32(d)>>))
  IN IF on = {} THEN None ELSE Some(Union(on, <<NaN, NaN>>))

build_hover_axes ==
  /\ "build_hover_axes" \notin ran
  /\ ran' = ran \cup {"build_hover_axes"}
  /\ hover' = [hover EXCEPT
                 !.xlimits = [r \in ArrowIds |->
                                IF r \in Hovers /\ hover.xlimits[r] = None
                                THEN HoverLimits(r) ELSE hover.xlimits[r]]]
  /\ aes' = [i \in 1..Len(aes) |->
               IF /\ Present(i).kind = PopUp
                  /\ ~aes[i].in_axis
                  /\ \E r \in Hovers :
                       /\ hover.xlimits[r] = None
                       /\ Position(Present(i).identifiers, r) # 0
                       /\ Position(Present(i).identifiers, r) <= Len(Present(i).data)
               THEN [aes[i] EXCEPT !.in_axis = TRUE]
               ELSE aes[i]]
  /\ UNCHANGED <<map, scene, mapLoaded, axes, hists, cmdAxes, cmdHists, ui>>

\* The popup plot_hover_hist spawns for binding aes[i] on Hover r: a HistTag
\* with AnyTag { id: hover.node_id }, invisible, carrying the condition.
PopupEntity(i, r) ==
  [node_id |-> r, condition |-> Present(i).condition, side |-> Present(i).side,
   visibility |-> Invisible, src |-> aes[i].src]

\* The loop of plot_hover_hist over the Hover entities rs for binding aes[i].
RECURSIVE HoverLoop(_, _, _)
HoverLoop(i, rs, st) ==
  IF rs = {} THEN st
  ELSE LET r == CHOOSE x \in rs : TRUE
           b == Present(i)
           index == Position(b.identifiers, r)
       IN IF hover.xlimits[r] = None THEN HoverLoop(i, rs \ {r}, st)
          ELSE IF index = 0
          THEN HoverLoop(i, rs \ {r}, [st EXCEPT !.rendered = TRUE])
          ELSE IF index > Len(b.data) THEN HoverLoop(i, rs \ {r}, st)
          ELSE IF b.plot = BoxPoint THEN st
          ELSE IF ~plot_hist(b.data[index], HistBins, hover.xlimits[r][1]).some THEN st
          ELSE HoverLoop(i, rs \ {r},
                 [rendered |-> TRUE, out |-> Append(st.out, PopupEntity(i, r))])

HoverPass ==
  [i \in 1..Len(aes) |->
     IF Present(i).kind = PopUp /\ ~aes[i].rendered
     THEN HoverLoop(i, Hovers, [rendered |-> FALSE, out |-> <<>>])
     ELSE [rendered |-> aes[i].rendered, out |-> <<>>]]

plot_hover_hist ==
  /\ "plot_hover_hist" \notin ran
  /\ ran' = ran \cup {"plot_hover_hist"}
  /\ aes' = [i \in 1..Len(aes) |-> [aes[i] EXCEPT !.rendered = HoverPass[i].rendered]]
  /\ hover' = [hover EXCEPT !.cmd = @ \o Flatten(HoverPass, 1)]
  /\ UNCHANGED <<map, scene, mapLoaded, axes, hists, cmdAxes, cmdHists, ui>>

\* The places the cursor can be: on arrow a only, between the two arrows
\* (on both), and away from both.
CursorPlaces == {<<0, 0>>, <<50, 0>>, <<0, 200>>}

\* (world_pos - Vec2::new(trans.translation.x, trans.translation.y))
\*     .length_squared() < 5000.
Reaches(c, at) ==
  (c[1] - at[1]) * (c[1] - at[1]) + (c[2] - at[2]) * (c[2] - at[2]) < ReachSquared

\* The user moves the cursor, or takes it out of the window.
CursorMoved ==
  /\ ran = {}
  /\ \E c \in {None} \cup {Some(p) : p \in CursorPlaces} :
       /\ c # hover.cursor
       /\ hover' = [hover EXCEPT !.cursor = c]
  /\ UNCHANGED <<map, scene, mapLoaded, aes, axes, hists, cmdAxes, cmdHists, ui, ran>>

\* Popup p after the loop of show_hover over the Hover entities, the
\* cursor being at c: a Hover the cursor is on shows its popups of a
\* matching condition; a Hover it is off hides its own popups and every
\* popup of another condition.
ShownPopup(p, c) ==
  LET near == {r \in Hovers : Reaches(c, ArrowAt[r])}
      far == Hovers \ near
      matches == p.condition = NoCond \/ p.condition = ui.condition \/ ui.condition = ALL
  IN IF p.node_id \in far \/ (far # {} /\ ~matches)
     THEN [p EXCEPT !.visibility = Invisible]
     ELSE IF p.node_id \in near /\ matches
     THEN [p EXCEPT !.visibility = Visible]
     ELSE p

show_hover ==
  /\ "show_hover" \notin ran
  /\ ran' = ran \cup {"show_hover"}
  /\ hover' = IF hover.cursor = None THEN hover
              ELSE [hover EXCEPT
                      !.popups = [k \in 1..Len(hover.popups) |->
                                    ShownPopup(hover.popups[k], hover.cursor[1])]]
  /\ UNCHANGED <<map, scene, mapLoaded, aes, axes, hists, cmdAxes, cmdHists, ui>>

\* ------------------------------------------------------------ dragging
\* Where a Transform is on the map.
PlaceOf(t) == <<t.x, t.y>>

\* The user presses or releases the middle button (Input<MouseButton>).
\* just_pressed(MouseButton::Middle): the Drag of every axis the cursor
\* reaches is set.
mouse_click_pressed ==
  /\ "mouse_click_system" \notin ran
  /\ ~hover.middle
  /\ ran' = ran \cup {"mouse_click_system"}
  /\ hover' = [hover EXCEPT !.middle = TRUE]
  /\ axes' = [j \in 1..Len(axes) |->
                IF hover.cursor # None /\ Reaches(hover.cursor[1], PlaceOf(axes[j].transform))
                THEN [axes[j] EXCEPT !.dragged = TRUE]
                ELSE axes[j]]
  /\ UNCHANGED <<map, scene, mapLoaded, aes, hists, cmdAxes, cmdHists, ui>>

\* just_released(MouseButton::Middle): every Drag is cleared.
mouse_click_released ==
  /\ "mouse_click_system" \notin ran
  /\ hover.middle
  /\ ran' = ran \cup {"mouse_click_system"}
  /\ hover' = [hover EXCEPT !.middle = FALSE]
  /\ axes' = [j \in 1..Len(axes) |-> [axes[j] EXCEPT !.dragged = FALSE]]
  /\ UNCHANGED <<map, scene, mapLoaded, aes, hists, cmdAxes, cmdHists, ui>>

\* No button event in this tick.
mouse_click_idle ==
  /\ "mouse_click_system" \notin ran
  /\ ran' = ran \cup {"mouse_click_system"}
  /\ UNCHANGED <<map, hover, scene, mapLoaded, aes, axes, hists, cmdAxes, cmdHists, ui>>

\* trans.translation = Vec3::new(world_pos.x, world_pos.y, trans.translation.z)
Dragged(t, c) == [t EXCEPT !.x = c[1], !.y = c[2]]

follow_mouse_on_drag ==
  /\ "follow_mouse_on_drag" \notin ran
  /\ ran' = ran \cup {"follow_mouse_on_drag"}
  /\ axes' = [j \in 1..Len(axes) |->
                IF axes[j].dragged /\ hover.cursor # None
                THEN [axes[j] EXCEPT !.transform = Dragged(@, hover.cursor[1]),
                                     !.changed = TRUE]
                ELSE axes[j]]
  /\ UNCHANGED <<map, hover, scene, mapLoaded, aes, hists, cmdAxes, cmdHists, ui>>

\* The Xaxis entities of Changed<Transform> that encoding h matches.
Leaders(h) ==
  {j \in 1..Len(axes) :
     axes[j].changed /\ axes[j].id = h.node_id /\ axes[j].side = h.side}

\* Encoding h after the loops of follow_the_axes: the translation and the
\* rotation of the last changed axis of its element and side.
Followed(h) ==
  LET js == Leaders(h)
  IN IF js = {} THEN h
     ELSE [h EXCEPT !.transform = axes[CHOOSE j \in js : \A l \in js : l <= j].transform]

follow_the_axes ==
  /\ "follow_the_axes" \notin ran
  /\ ran' = ran \cup {"follow_the_axes"}
  /\ hists' = [k \in 1..Len(hists) |-> Followed(hists[k])]
  /\ axes' = [j \in 1..Len(axes) |-> [axes[j] EXCEPT !.changed = FALSE]]
  /\ UNCHANGED <<map, hover, scene, mapLoaded, aes, cmdAxes, cmdHists, ui>>

\* ---------------------------------------------------------- persistence
\* reac.hist_position.get_or_insert(HashMap::new())
\*     .insert(axis.side.clone(), (*trans).into())
\* for the Xaxis entities from j on; a later entity overwrites an earlier
\* one of the same reaction and side.
RECURSIVE SavedPositions(_, _)
SavedPositions(j, file) ==
  IF j > Len(axes) THEN file
  ELSE SavedPositions(j + 1,
         IF axes[j].id \in DOMAIN file /\ axes[j].side \in DOMAIN file[axes[j].id]
         THEN [file EXCEPT ![axes[j].id][axes[j].side] = Some(ToSer(axes[j].transform))]
         ELSE file)

\* save_file on a SaveEvent: the positions are written into the map asset
\* and the asset into the file.
save_file ==
  /\ "save_file" \notin ran
  /\ map.saves < MaxSaves
  /\ ran' = ran \cup {"save_file"}
  /\ map' = IF mapLoaded
            THEN [map EXCEPT !.file = SavedPositions(1, map.file), !.saves = @ + 1]
            ELSE [map EXCEPT !.saves = @ + 1]
  /\ UNCHANGED <<hover, scene, mapLoaded, aes, axes, hists, cmdAxes, cmdHists, ui>>

\* save_file without a SaveEvent.
save_file_idle ==
  /\ "save_file" \notin ran
  /\ ran' = ran \cup {"save_file"}
  /\ UNCHANGED <<map, hover, scene, mapLoaded, aes, axes, hists, cmdAxes, cmdHists, ui>>

\* The application is closed and started again on the saved map: every
\* entity and resource is as after construction, the file is kept.
Reopen ==
  /\ ran = {}
  /\ mapLoaded
  /\ map.file # map.hists
  /\ mapLoaded' = FALSE
  /\ aes' = <<>>
  /\ axes' = <<>>
  /\ hists' = <<>>
  /\ map' = [map EXCEPT !.hists = NoPositions]
  /\ ui' = Constructed.ui
  /\ scene' = Constructed.scene
  /\ hover' = Constructed.hover
  /\ UNCHANGED <<cmdAxes, cmdHists, ran>>

\* --------------------------------------------------------- end of stage
\* Every system of the stage has run: the queued Commands are applied.
EndTick(systems) ==
  /\ ran = systems
  /\ ran' = {}
  /\ axes' = axes \o cmdAxes
  /\ hists' = hists \o cmdHists
  /\ cmdAxes' = <<>>
  /\ cmdHists' = <<>>
  /\ hover' = [hover EXCEPT !.popups = @ \o hover.cmd, !.cmd = <<>>]
  /\ UNCHANGED <<map, scene, mapLoaded, aes, ui>>

\* -------------------------------------------------------- specifications
\* Systems that neither read nor write what a group of properties is about
\* are left out of its specification: they commute with the others.

\* Aggregation and rendering.
PlotSystems ==
  {"build_axes", "build_point_axes", "plot_side_hist", "plot_side_box"}

PlotStep ==
  \/ LoadMap
  \/ build_axes
  \/ build_point_axes
  \/ plot_side_hist
  \/ plot_side_box

Next ==
  \/ LoadData(AllPool)
  \/ PlotStep
  \/ EndTick(PlotSystems)

Spec == Init /\ [][Next]_vars

\* Aggregation, rendering and the height passes, with the side sliders.
ScaleSystems ==
  PlotSystems \cup
  {"normalize_histogram_height", "unscale_histogram_children", "ui_settings"}

NextScale ==
  \/ LoadData(ScalePool)
  \/ PlotStep
  \/ normalize_histogram_height
  \/ unscale_histogram_children
  \/ ui_settings_idle
  \/ ui_settings_slider
  \/ EndTick(ScaleSystems)

SpecScale == Init /\ [][NextScale]_vars

\* Aggregation, rendering and the condition passes, with the ComboBox.
VisSystems ==
  PlotSystems \cup {"fill_conditions", "filter_histograms", "ui_settings"}

NextVis ==
  \/ LoadData(VisPool)
  \/ PlotStep
  \/ fill_conditions
  \/ filter_histograms
  \/ ui_settings_idle
  \/ ui_settings_condition
  \/ EndTick(VisSystems)

SpecVis == Init /\ [][NextVis]_vars

\* The arrow channels and the colour legends, with the conditions menu.
MapSystems ==
  {"plot_arrow_color", "plot_arrow_size", "color_legend_arrow",
   "color_legend_circle", "fill_conditions", "ui_settings"}

NextMap ==
  \/ LoadMap
  \/ LoadData(MapPool)
  \/ plot_arrow_color
  \/ plot_arrow_size
  \/ color_legend_arrow
  \/ color_legend_circle
  \/ fill_conditions
  \/ ui_settings_idle
  \/ ui_settings_condition
  \/ EndTick(MapSystems)

SpecMap == Init /\ [][NextMap]_vars

\* The arrow widths, with the conditions menu.
SizeSystems == {"plot_arrow_size", "fill_conditions", "ui_settings"}

NextSize ==
  \/ LoadMap
  \/ LoadData(SizePool)
  \/ plot_arrow_size
  \/ fill_conditions
  \/ ui_settings_idle
  \/ ui_settings_condition
  \/ EndTick(SizeSystems)

SpecSize == Init /\ [][NextSize]_vars

\* The histogram aggregator and renderer under fair scheduling: the
\* schedule runs every system of the stage in every tick and then ends it.
LiveSystems == {"build_axes", "plot_side_hist"}

NextLive ==
  \/ LoadMap
  \/ LoadData(LivePool)
  \/ build_axes
  \/ plot_side_hist
  \/ EndTick(LiveSystems)

\* Weak fairness of every system and of the end of the stage. A system is
\* enabled exactly while it has not run in the tick, so WF_vars(system) is
\* written out with that condition in the place of ENABLED.
SpecLive ==
  /\ Init
  /\ [][NextLive]_vars
  /\ ([]<>("build_axes" \in ran) \/ []<><<build_axes>>_vars)
  /\ ([]<>("plot_side_hist" \in ran) \/ []<><<plot_side_hist>>_vars)
  /\ WF_vars(EndTick(LiveSystems))

\* The conditions menu over successive datasets.
ReloadSystems == {"fill_conditions", "ui_settings"}

NextReload ==
  \/ LoadData(VisPool)
  \/ ReloadData
  \/ fill_conditions
  \/ ui_settings_idle
  \/ ui_settings_condition
  \/ EndTick(ReloadSystems)

SpecReload == Init /\ [][NextReload]_vars

\* The metabolite colours and their legend, with the conditions menu.
CircleSystems ==
  {"plot_metabolite_color", "color_legend_circle", "fill_conditions", "ui_settings"}

NextCircle ==
  \/ LoadMap
  \/ LoadData(CirclePool)
  \/ plot_metabolite_color
  \/ color_legend_circle
  \/ fill_conditions
  \/ ui_settings_idle
  \/ ui_settings_condition
  \/ EndTick(CircleSystems)

SpecCircle == Init /\ [][NextCircle]_vars

\* Saving the positions of the axes and opening the saved map.
SaveSystems ==
  {"build_axes", "build_point_axes", "plot_side_hist", "plot_side_box", "save_file"}

NextSave ==
  \/ LoadMap
  \/ LoadData(SavePool)
  \/ Reopen
  \/ build_axes
  \/ build_point_axes
  \/ plot_side_hist
  \/ plot_side_box
  \/ save_file
  \/ save_file_idle
  \/ EndTick(SaveSystems)

SpecSave == Init /\ [][NextSave]_vars

\* Dragging the axes of the side histograms.
DragSystems ==
  {"build_axes", "plot_side_hist", "mouse_click_system", "follow_mouse_on_drag",
   "follow_the_axes"}

NextDrag ==
  \/ LoadMap
  \/ LoadData(DragPool)
  \/ CursorMoved
  \/ build_axes
  \/ plot_side_hist
  \/ mouse_click_pressed
  \/ mouse_click_released
  \/ mouse_click_idle
  \/ follow_mouse_on_drag
  \/ follow_the_axes
  \/ EndTick(DragSystems)

SpecDrag == Init /\ [][NextDrag]_vars

\* The popups, with the cursor and the conditions menu.
HoverSystems ==
  {"build_hover_axes", "plot_hover_hist", "show_hover", "fill_conditions",
   "ui_settings"}

NextHover ==
  \/ LoadMap
  \/ LoadData(HoverPool)
  \/ CursorMoved
  \/ build_hover_axes
  \/ plot_hover_hist
  \/ show_hover
  \/ fill_conditions
  \/ ui_settings_idle
  \/ ui_settings_condition
  \/ EndTick(HoverSystems)

SpecHover == Init /\ [][NextHover]_vars

\* The side legends and the side colours, with the settings window.
LegendPool == {1, 3, 4}

LegendSystems ==
  {"build_axes", "fill_conditions", "ui_settings", "color_legend_histograms",
   "color_legend_box"}

NextLegend ==
  \/ LoadMap
  \/ LoadData(LegendPool)
  \/ build_axes
  \/ fill_conditions
  \/ ui_settings_idle
  \/ ui_settings_condition
  \/ color_legend_histograms
  \/ color_legend_box
  \/ EndTick(LegendSystems)

SpecLegend == Init /\ [][NextLegend]_vars

\* The side colours, with the colour buttons of the settings window.
ColorPool == {1, 4}

ColorSystems ==
  {"build_axes", "fill_conditions", "ui_settings", "color_legend_histograms"}

NextColor ==
  \/ LoadMap
  \/ LoadData(ColorPool)
  \/ build_axes
  \/ fill_conditions
  \/ ui_settings_idle
  \/ ui_settings_condition
  \/ ui_settings_color
  \/ color_legend_histograms
  \/ EndTick(ColorSystems)

SpecColor == Init /\ [][NextColor]_vars

\* ================================================================ claims
\* The step in which system `name` runs.
Runs(name) == name \notin ran /\ name \in ran'

\* The Distribution bindings mapped to (id, side), and their samples there.
DistOnKey(id, side) ==
  {i \in 1..Len(aes) : /\ Present(i).kind = Dist
                       /\ Present(i).side = side
                       /\ Position(Present(i).identifiers, id) # 0
                       /\ Position(Present(i).identifiers, id) <= Len(Present(i).data)}

SamplesOnKey(id, side) ==
  UNION {SeqToSet(Present(i).data[Position(Present(i).identifiers, id)]) :
           i \in DistOnKey(id, side)}

SetMin(S) == CHOOSE v \in S : \A w \in S : v <= w
SetMax(S) == CHOOSE v \in S : \A w \in S : v >= w

\* C1: once build_axes has aggregated every distribution binding mapped to
\* an (element id, side) and its spawns are applied, each axis build_axes
\* spawned for that key has xlimits = (min, max) over the samples of all
\* those bindings.
C1_AxisRangeIsUnion ==
  \A j \in 1..Len(axes) :
    LET id == axes[j].id
        side == axes[j].side
    IN (/\ ~axes[j].unscale
        /\ cmdAxes = <<>>
        /\ \A i \in DistOnKey(id, side) : aes[i].in_axis
        /\ SamplesOnKey(id, side) # {})
       => axes[j].xlimits = <<Num(SetMin(SamplesOnKey(id, side))),
                              Num(SetMax(SamplesOnKey(id, side)))>>

\* C2: in every reachable state at most one Xaxis entity exists per
\* (element id, side).
C2_OneAxisPerKey ==
  \A j1, j2 \in 1..Len(axes) :
    (axes[j1].id = axes[j2].id /\ axes[j1].side = axes[j2].side) => j1 = j2

\* C3: a pass of build_axes over bindings that an earlier pass has already
\* aggregated (every distribution binding is in_axis or matches no arrow)
\* queues no Xaxis spawn, changes no flag and no existing axis; and whatever
\* a pass spawns is built only from bindings whose in_axis flag was false.
C3_BuildAxesIdempotent ==
  [][Runs("build_axes") =>
       /\ axes' = axes
       /\ \A n \in (Len(cmdAxes) + 1)..Len(cmdAxes') :
            \A i \in 1..Len(aes) :
              aes[i].src \in cmdAxes'[n].srcs => ~aes[i].in_axis
       /\ (\A i \in 1..Len(aes) :
             Present(i).kind = Dist =>
               (aes[i].in_axis \/ MatchedArrows(Present(i)) = {}))
          => (cmdAxes' = cmdAxes /\ aes' = aes)]_vars

\* C3 witness: build_axes has run again in a tick after the one in which it
\* aggregated a binding (its axis is already spawned), and queued nothing.
C3_Witness ==
  /\ "build_axes" \in ran
  /\ cmdAxes = <<>>
  /\ \E i \in 1..Len(aes), j \in 1..Len(axes) :
       /\ Present(i).kind = Dist
       /\ aes[i].in_axis
       /\ ~axes[j].unscale
       /\ aes[i].src \in axes[j].srcs

\* Every HistTag entity, spawned or queued.
AllHists == hists \o cmdHists

\* C4: at most one rendered encoding exists per (binding, element, side).
C4_OneEncodingPerTarget ==
  \A k1, k2 \in 1..Len(AllHists) :
    (/\ AllHists[k1].src = AllHists[k2].src
     /\ AllHists[k1].node_id = AllHists[k2].node_id
     /\ AllHists[k1].side = AllHists[k2].side) => k1 = k2

\* plot_side_hist asks for the geometry of binding aes[i] and gets none:
\* some axis matches it and plot_hist returns None on every matching axis.
NoGeometryFor(i) ==
  /\ Present(i).plot = Hist
  /\ \E j \in 1..Len(axes) : AxisPosition(Present(i), axes[j]) # 0
  /\ \A j \in 1..Len(axes) :
       AxisPosition(Present(i), axes[j]) # 0 =>
         ~plot_hist(Present(i).data[AxisPosition(Present(i), axes[j])],
                    HistBins, axes[j].xlimits).some

\* C5: a pass of plot_side_hist that obtains no geometry for a binding queues
\* no encoding for it and leaves its rendered flag false.
C5_NoGeometryKeepsRetryable ==
  [][Runs("plot_side_hist") =>
       \A i \in 1..Len(aes) :
         (Present(i).kind = Dist /\ ~aes[i].rendered /\ NoGeometryFor(i)) =>
           /\ ~aes'[i].rendered
           /\ \A n \in 1..Len(cmdHists') : cmdHists'[n].src # aes[i].src]_vars

\* The arrows binding aes[i] is to be drawn next to.
Targets(i) ==
  IF Present(i).kind = Dist THEN MatchedArrows(Present(i))
  ELSE PointMatchedArrows(Present(i))

\* The Xaxis entities that aggregated binding aes[i] are spawned.
AxesPresentFor(i) ==
  \A r \in Targets(i) :
    \E j \in 1..Len(axes) :
      /\ axes[j].id = r
      /\ axes[j].side = Present(i).side
      /\ aes[i].src \in axes[j].srcs

\* C6: in every tick the aggregators have taken effect when a renderer runs
\* (every binding still to be drawn finds the Xaxis that aggregated it), the
\* renderers have taken effect when normalize_histogram_height runs (they
\* have run if a binding was ready to be drawn, and what they drew is
\* spawned), and no binding is drawn in a tick in which the Xaxis that aggregated it is not
\* yet spawned.
C6_AggregateThenPlotThenNormalize ==
  [][/\ (Runs("plot_side_hist") \/ Runs("plot_side_box")) =>
          \A i \in 1..Len(aes) : ~aes[i].rendered => AxesPresentFor(i)
     /\ Runs("normalize_histogram_height") =>
          /\ cmdHists = <<>>
          /\ \A i \in 1..Len(aes) :
               (Targets(i) # {} /\ AxesPresentFor(i) /\ ~aes[i].rendered) =>
                 {"plot_side_hist", "plot_side_box"} \subseteq ran
     /\ \A n \in 1..Len(cmdHists') :
          \E j \in 1..Len(axes') :
            /\ axes'[j].id = cmdHists'[n].node_id
            /\ axes'[j].side = cmdHists'[n].side
            /\ cmdHists'[n].src \in axes'[j].srcs]_vars

\* The target height configured for a side.
TargetOf(side) ==
  CASE side = Left -> ui.max_left
    [] side = Right -> ui.max_right
    [] side = Up -> ui.max_top

\* C7: after a pass of normalize_histogram_height every encoding without
\* Unscale has scale.y = (target height of its side) / (its raw maximum
\* height), i.e. scale.y * height = target.
C7_ScaleIsTargetOverHeight ==
  [][Runs("normalize_histogram_height") =>
       /\ Len(hists') = Len(hists)
       /\ \A k \in 1..Len(hists) :
            ~hists[k].unscale =>
              hists'[k].scale_y.n * hists[k].height =
                TargetOf(hists[k].side) * hists'[k].scale_y.d]_vars

\* C7 witness: two histograms on one side with raw heights 10 and 40 are
\* scaled by 10 and 2.5 to the target 100, and a histogram of the right side
\* is scaled to its own target while the left target differs.
C7_Witness ==
  /\ "normalize_histogram_height" \in ran
  /\ \E k1, k2 \in 1..Len(hists) :
       /\ hists[k1].side = hists[k2].side
       /\ TargetOf(hists[k1].side) = 100
       /\ hists[k1].height = 10 /\ hists[k1].scale_y = Ratio(10, 1)
       /\ hists[k2].height = 40 /\ hists[k2].scale_y = Ratio(5, 2)

\* C8: a pass of normalize_histogram_height leaves the scale of every
\* encoding marked Unscale as it was.
C8_UnscaleKeepsScale ==
  [][Runs("normalize_histogram_height") =>
       \A k \in 1..Len(hists) :
         hists[k].unscale => hists'[k].scale_y = hists[k].scale_y]_vars

\* C8 witness: normalize_histogram_height has rescaled a histogram while a
\* box-point encoding marked Unscale is spawned and still has scale 1.
C8_Witness ==
  /\ "normalize_histogram_height" \in ran
  /\ \E k1, k2 \in 1..Len(hists) :
       /\ hists[k1].unscale /\ hists[k1].scale_y = One
       /\ ~hists[k2].unscale /\ hists[k2].scale_y # One

\* C9: at the end of a tick in which normalize_histogram_height and
\* unscale_histogram_children have both run, the children of every encoding
\* have scale.y = 1 / (the parent's scale.y).
C9_ChildrenCounterScaled ==
  {"normalize_histogram_height", "unscale_histogram_children"} \subseteq ran =>
    \A k \in 1..Len(hists) :
      hists[k].children => hists[k].child_scale_y = Recip(hists[k].scale_y)

\* C10: after a pass of filter_histograms an encoding tagged with condition
\* c is INVISIBLE iff c differs from the active condition and the active
\* condition is not "ALL", and VISIBLE otherwise; an encoding without a
\* condition keeps its visibility.
C10_HiddenIffOtherCondition ==
  [][Runs("filter_histograms") =>
       /\ Len(hists') = Len(hists)
       /\ \A k \in 1..Len(hists) :
            IF hists[k].condition = NoCond
            THEN hists'[k].visibility = hists[k].visibility
            ELSE /\ hists'[k].visibility \in {Visible, Invisible}
                 /\ hists'[k].visibility = Invisible <=>
                      (hists[k].condition # ui.condition /\ ui.condition # "ALL")]_vars

\* C10 witness: filter_histograms has run with a specific active condition,
\* hiding the encoding of another condition and showing the active one's.
C10_Witness ==
  /\ "filter_histograms" \in ran
  /\ ui.condition \notin {"", "ALL"}
  /\ \E k1, k2 \in 1..Len(hists) :
       /\ hists[k1].condition \notin {NoCond, ui.condition}
       /\ hists[k1].visibility = Invisible
       /\ hists[k2].condition = ui.condition
       /\ hists[k2].visibility = Visible

\* The bindings of a channel, and the last of them in iteration order.
OfChannel(channel) == {i \in 1..Len(aes) : Present(i).kind = channel}
LastOf(S) == CHOOSE i \in S : \A j \in S : j <= i

\* The system that maintains legend k.
LegendSystem(k) == IF k = "arrow" THEN "color_legend_arrow" ELSE "color_legend_circle"

\* C11: after a pass of color_legend_arrow / color_legend_circle the legend is
\* displayed (Flex) iff a binding of its channel exists whose condition is
\* unset or equals the active condition, or the active condition is "ALL";
\* otherwise it is collapsed (None).
C11_LegendShownIffMatchingBinding ==
  [][\A k \in LegendKinds :
       Runs(LegendSystem(k)) =>
         /\ scene'.legend[k].display \in {"Flex", "None"}
         /\ scene'.legend[k].display = "Flex" <=>
              \E i \in OfChannel(LegendChannel(k)) :
                \/ Present(i).condition = NoCond
                \/ Present(i).condition = ui.condition
                \/ ui.condition = "ALL"]_vars

\* C11 witness: both legend systems have run with active condition c2; the
\* arrow legend, which has a c2 binding, is shown and the circle legend,
\* whose only binding is of c1, is collapsed.
C11_Witness ==
  /\ {"color_legend_arrow", "color_legend_circle"} \subseteq ran
  /\ ui.condition = "c2"
  /\ \E i \in OfChannel(ArrowColor) : Present(i).condition = "c2"
  /\ OfChannel(CircleColor) # {}
  /\ scene.legend["arrow"].display = "Flex"
  /\ scene.legend["circle"].display = "None"

\* C12: when the active condition is "ALL" and the bindings of the arrow
\* colour channel carry several different conditions, after a pass of
\* color_legend_arrow the legend's min and max labels are those of the last
\* binding of the channel in iteration order.
C12_AllShowsLastBinding ==
  [][(/\ Runs("color_legend_arrow")
      /\ ui.condition = "ALL"
      /\ \E i, j \in OfChannel(ArrowColor) :
           /\ Present(i).condition # NoCond
           /\ Present(j).condition # NoCond
           /\ Present(i).condition # Present(j).condition)
     => LET b == Present(LastOf(OfChannel(ArrowColor)))
        IN /\ scene'.legend["arrow"].xmin = Fmt2e(min_f32(b.data))
           /\ scene'.legend["arrow"].xmax = Fmt2e(max_f32(b.data))]_vars

\* The conditioned bindings of a channel.
Conditioned(channel) == {i \in OfChannel(channel) : Present(i).condition # NoCond}

\* C13: when the active condition is "ALL" (and every binding of the channel
\* carries a condition), after plot_arrow_color the arrows have the colours,
\* and after plot_arrow_size the widths, of the last conditioned binding.
C13_AllDrawsLastBinding ==
  [][/\ (/\ Runs("plot_arrow_color")
         /\ ui.condition = "ALL"
         /\ Conditioned(ArrowColor) # {}
         /\ Conditioned(ArrowColor) = OfChannel(ArrowColor))
        => \A r \in Arrows :
             scene'.stroke[r].color =
               ArrowColors(Present(LastOf(Conditioned(ArrowColor))), scene.stroke)[r].color
     /\ (/\ Runs("plot_arrow_size")
         /\ ui.condition = "ALL"
         /\ Conditioned(ArrowSize) # {}
         /\ Conditioned(ArrowSize) = OfChannel(ArrowSize))
        => \A r \in Arrows :
             scene'.stroke[r].width =
               ArrowWidths(Present(LastOf(Conditioned(ArrowSize))), scene.stroke)[r].width]_vars

\* The pass of legend k regenerates the image: a binding of its channel is
\* unconditioned or of the active condition.
Regenerates(k) ==
  \E i \in OfChannel(LegendChannel(k)) :
    Present(i).condition = NoCond \/ Present(i).condition = ui.condition

\* C14: a pass of a colour legend system that regenerates the gradient keeps
\* the width and the number of pixels of the legend's image and its set of
\* transparent pixels: a pixel whose alpha was 0 is (0, 0, 0, 0) afterwards
\* and every other pixel is an opaque gradient colour; a pass that does not
\* regenerate leaves the image as it was.
C14_RegenerationKeepsMask ==
  [][\A k \in LegendKinds :
       Runs(LegendSystem(k)) =>
         LET old == scene.legend[k].image
             new == scene'.legend[k].image
         IN IF Regenerates(k)
            THEN /\ new.width = old.width
                 /\ Len(new.data) = Len(old.data)
                 /\ \A n \in 1..Len(old.data) :
                      /\ old.data[n].a = 0 => new.data[n] = ClearPixel
                      /\ old.data[n].a # 0 =>
                           (new.data[n].a # 0 /\ Len(new.data[n].rgb) = 3)
            ELSE new = old]_vars

\* C14 witness: the arrow legend's image has been regenerated: the pixel
\* spawned transparent but white is cleared, the opaque ones carry gradient
\* colours of their columns.
C14_Witness ==
  LET data == scene.legend["arrow"].image.data
  IN /\ "color_legend_arrow" \in ran
     /\ scene.legend["arrow"].display = "Flex"
     /\ data[1] = ClearPixel
     /\ data[5] = ClearPixel
     /\ Len(data[2].rgb) = 3 /\ data[2].rgb[3] = Num(1)
     /\ Len(data[3].rgb) = 3 /\ data[3].rgb[3] = Num(0)

\* The bindings of a channel an arrow pass does not skip.
ActiveOf(channel) ==
  {i \in OfChannel(channel) : Active(Present(i).condition, ui.condition)}

\* All values of a scalar binding are equal.
Degenerate(b) == b.data # <<>> /\ min_f32(b.data) = max_f32(b.data)

\* C19: when the binding that paints the arrows (the last active one of the
\* channel) has min = max, plot_arrow_size gives every arrow it lists the
\* width (min_reaction + max_reaction) / 2 and plot_arrow_color the colour
\* of parameter 1/2.
C19_DegenerateRangeGivesMidpoint ==
  [][/\ (/\ Runs("plot_arrow_size")
         /\ ActiveOf(ArrowSize) # {}
         /\ Degenerate(Present(LastOf(ActiveOf(ArrowSize)))))
        => \A r \in Arrows :
             Position(Present(LastOf(ActiveOf(ArrowSize))).identifiers, r) # 0 =>
               scene'.stroke[r].width = Ratio(MinReaction + MaxReaction, 2)
     /\ (/\ Runs("plot_arrow_color")
         /\ ActiveOf(ArrowColor) # {}
         /\ Degenerate(Present(LastOf(ActiveOf(ArrowColor)))))
        => \A r \in Arrows :
             Position(Present(LastOf(ActiveOf(ArrowColor))).identifiers, r) # 0 =>
               scene'.stroke[r].color = lerp_hsv(Ratio(1, 2))]_vars

\* The condition labels the present bindings carry, and how often a label
\* occurs in a list.
PresentLabels ==
  {Present(i).condition : i \in {j \in 1..Len(aes) : Present(j).condition # NoCond}}
Occurrences(list, label) == Cardinality({n \in 1..Len(list) : list[n] = label})

C16_OnlyUserWritesCondition ==
  [][ui'.condition # ui.condition => Runs("ui_settings")]_vars

\* C16 amended: the active condition changes only through a selection in the
\* settings panel, or when fill_conditions finds it empty and sets it to the
\* first known condition.
C16_UserOrDefaultWritesCondition ==
  [][ui'.condition # ui.condition =>
       \/ Runs("ui_settings")
       \/ /\ Runs("fill_conditions")
          /\ ui.condition = ""
          /\ ui'.condition = ui'.conditions[1]]_vars

\* C16 witness: in the first tick with conditioned bindings fill_conditions,
\* the only system run so far, has selected the first known condition.
C16_Witness ==
  /\ ran = {"fill_conditions"}
  /\ Len(ui.conditions) > 1
  /\ ui.condition = ui.conditions[1]
  /\ ui.condition # ""

\* Every Xaxis entity, spawned or queued.
AllAxes == axes \o cmdAxes

\* C17: a binding whose side is Up is never aggregated: after a pass of
\* build_axes or build_point_axes no Xaxis has side Up or was built from such
\* a binding, the binding's in_axis flag is false, and every other binding
\* of the pass that matches an arrow has been aggregated.
C17_UpSideNeverAggregated ==
  [][(Runs("build_axes") \/ Runs("build_point_axes")) =>
       /\ \A j \in 1..Len(cmdAxes') :
            /\ cmdAxes'[j].side \in {Left, Right}
            /\ \A p \in cmdAxes'[j].srcs : Pool[p].side \in {Left, Right}
       /\ axes' = axes
       /\ \A i \in 1..Len(aes) :
            Present(i).side = Up => ~aes'[i].in_axis
       /\ \A i \in 1..Len(aes) :
            (/\ Present(i).kind = IF Runs("build_axes") THEN Dist ELSE Point
             /\ Present(i).side \in {Left, Right}
             /\ \E r \in Arrows : Position(Present(i).identifiers, r) # 0)
            => /\ aes'[i].in_axis
               /\ \E j \in 1..Len(AllAxes') : aes[i].src \in AllAxes'[j].srcs]_vars

\* C17 witness: both aggregators have run over a Distribution and a Point
\* binding of side Up that match an arrow and over a later binding they
\* aggregated.
C17_Witness ==
  /\ {"build_axes", "build_point_axes"} \subseteq ran
  /\ mapLoaded
  /\ \E i, j, k \in 1..Len(aes) :
       /\ Present(i).kind = Dist /\ Present(i).side = Up /\ ~aes[i].in_axis
       /\ Present(j).kind = Point /\ Present(j).side = Up /\ ~aes[j].in_axis
       /\ i < k /\ j < k /\ aes[k].in_axis
       /\ \E n \in 1..Len(cmdAxes) : aes[k].src \in cmdAxes[n].srcs

\* plot_hist yields a geometry for binding aes[i] on some axis that matches
\* it, and on every axis that matches it.
GeometryFor(i) ==
  /\ \E j \in 1..Len(axes) : AxisPosition(Present(i), axes[j]) # 0
  /\ \A j \in 1..Len(axes) :
       AxisPosition(Present(i), axes[j]) # 0 =>
         plot_hist(Present(i).data[AxisPosition(Present(i), axes[j])],
                   HistBins, axes[j].xlimits).some

\* C18: a pass of plot_side_hist queues no encoding for a distribution
\* binding that asks for BoxPoint, and queues one for every other
\* distribution binding not yet rendered that has a geometry.
C18_BoxPointOfDistributionSkipped ==
  [][Runs("plot_side_hist") =>
       /\ \A n \in 1..Len(cmdHists') :
            ~(Pool[cmdHists'[n].src].kind = Dist /\ Pool[cmdHists'[n].src].plot = BoxPoint)
       /\ \A i \in 1..Len(aes) :
            (/\ Present(i).kind = Dist
             /\ Present(i).plot = Hist
             /\ ~aes[i].rendered
             /\ GeometryFor(i))
            => \E n \in (Len(cmdHists) + 1)..Len(cmdHists') :
                 cmdHists'[n].src = aes[i].src]_vars

\* C18 witness: plot_side_hist has met a distribution binding asking for
\* BoxPoint whose Xaxis is spawned, and has drawn a binding iterated after it.
C18_Witness ==
  /\ "plot_side_hist" \in ran
  /\ \E i, k \in 1..Len(aes) :
       /\ Present(i).kind = Dist /\ Present(i).plot = BoxPoint
       /\ \E j \in 1..Len(axes) : AxisPosition(Present(i), axes[j]) # 0
       /\ i < k
       /\ \E n \in 1..Len(cmdHists) : cmdHists[n].src = aes[k].src

\* C20: two box-points of bindings with different conditions drawn on the
\* same Xaxis have different slots, and the slot of every box-point of a
\* conditioned binding is smaller than the number of slots.
C20_BoxSlotsFanOut ==
  \A k1, k2 \in 1..Len(AllHists) :
    (AllHists[k1].unscale /\ AllHists[k1].condition # NoCond) =>
      /\ AllHists[k1].slot < AllHists[k1].slots
      /\ (/\ AllHists[k2].unscale
          /\ AllHists[k2].condition # NoCond
          /\ AllHists[k2].axis = AllHists[k1].axis
          /\ AllHists[k2].condition # AllHists[k1].condition)
         => AllHists[k1].slot # AllHists[k2].slot

\* C27: a pass of ui_settings in which the user moves the slider of one
\* side to v leaves that side's target height at v and the target heights
\* of the other two sides as they were.
C27_SliderEditsItsOwnSide ==
  [][\A side \in {"left", "right", "top"}, v \in SliderValues :
       (Runs("ui_settings") /\ ui' # Shown /\ ui' = [Shown EXCEPT ![SliderField(side)] = v])
       => /\ ui'.max_left = IF side = "left" THEN v ELSE ui.max_left
          /\ ui'.max_right = IF side = "right" THEN v ELSE ui.max_right
          /\ ui'.max_top = IF side = "top" THEN v ELSE ui.max_top]_vars

\* C28: no binding is rendered while its in_axis flag is false, and neither
\* flag of a binding goes back to false.
C28_AggregatedBeforeRendered ==
  [][\A i \in 1..Len(aes) :
       /\ aes[i].in_axis => aes'[i].in_axis
       /\ aes[i].rendered => aes'[i].rendered
       /\ aes'[i].rendered => aes'[i].in_axis]_vars

\* C23: no step changes the value range, the physical extent or the
\* condition list of an Xaxis that is spawned, nor its key.
C23_SpawnedAxisIsFrozen ==
  [][\A j \in 1..Len(axes) :
       /\ j <= Len(axes')
       /\ axes'[j].xlimits = axes[j].xlimits
       /\ axes'[j].arrow_size = axes[j].arrow_size
       /\ axes'[j].conditions = axes[j].conditions
       /\ axes'[j].id = axes[j].id
       /\ axes'[j].side = axes[j].side]_vars

\* C23 witness: after an Xaxis was spawned, a binding that arrived later on
\* the same key has been aggregated and marked rendered, and a box-point has
\* been drawn on a spawned axis.
C23_Witness ==
  /\ \E j \in 1..Len(axes), i \in 1..Len(aes) :
       /\ ~axes[j].unscale
       /\ i \in DistOnKey(axes[j].id, axes[j].side)
       /\ aes[i].src \notin axes[j].srcs
       /\ aes[i].in_axis /\ aes[i].rendered
  /\ \E j \in 1..Len(axes) : axes[j].unscale /\ axes[j].transform.z10 > 5

\* The value binding b holds for arrow r.
ValueOf(b, r) == b.data[Position(b.identifiers, r)]

C22_WitnessMin ==
  /\ "plot_arrow_size" \in ran
  /\ mapLoaded
  /\ ui.condition = "c1"
  /\ scene.stroke["a"].width = Ratio(MinReaction, 1)
  /\ scene.stroke["b"].width = Ratio(MaxReaction, 1)

\* C24: after color_legend_box the box-point legend of a side is displayed
\* only if a Point side-plot binding of that side exists.
C24_BoxLegendNeedsItsSide ==
  [][Runs("color_legend_box") =>
       \A side \in LegendSides :
         scene'.box[side].display = "Flex" =>
           \E i \in 1..Len(aes) : Present(i).kind = Point /\ Present(i).side = side]_vars

\* A histogram Xaxis, and a distribution binding, of `side` exists.
HistAxisOn(side) == \E j \in 1..Len(axes) : ~axes[j].unscale /\ axes[j].side = side
DistBindingOn(side) ==
  \E i \in 1..Len(aes) : Present(i).kind = Dist /\ Present(i).side = side

C25_WitnessBoth ==
  /\ "color_legend_histograms" \in ran
  /\ HistAxisOn(Right) /\ DistBindingOn(Right)
  /\ HistAxisOn(Left) /\ DistBindingOn(Left)
  /\ scene.hist[Right].display = "Flex"
  /\ scene.hist[Left].display = "Flex"

\* C26: a pass of ui_settings or of color_legend_histograms that looks up a
\* key the colour map of a side does not hold yet stores the colour of the
\* key "" under it, adds no other key, and leaves the entries of all other
\* keys as they were.
C26_FirstLookupCopiesDefault ==
  [][(Runs("ui_settings") \/ Runs("color_legend_histograms")) =>
       \A side \in {Left, Right, Up} :
         /\ DOMAIN ui'.color[side] \subseteq (DOMAIN ui.color[side]) \cup {ui.condition}
         /\ \A key \in DOMAIN ui.color[side] :
              /\ key \in DOMAIN ui'.color[side]
              /\ key # ui.condition => ui'.color[side][key] = ui.color[side][key]
         /\ \A key \in (DOMAIN ui'.color[side]) \ (DOMAIN ui.color[side]) :
              ui'.color[side][key] = ui.color[side][""]]_vars

\* C29: after a pass of show_hover with the cursor inside the window, no
\* popup whose condition differs from the active condition is visible,
\* unless the active condition is "ALL".
C29_NoPopupOfAnotherCondition ==
  [][(Runs("show_hover") /\ hover.cursor # None) =>
       \A k \in 1..Len(hover'.popups) :
         (/\ hover'.popups[k].condition # NoCond
          /\ hover'.popups[k].condition # ui.condition
          /\ ui.condition # ALL)
         => hover'.popups[k].visibility = Invisible]_vars

\* C30: a pass of follow_the_axes gives every side encoding the translation
\* and rotation of each changed axis of its element and side, changes
\* nothing else of it, and leaves the encodings of other elements and of
\* the other side as they were.
C30_EncodingsFollowTheirAxis ==
  [][Runs("follow_the_axes") =>
       /\ Len(hists') = Len(hists)
       /\ \A k \in 1..Len(hists) :
            /\ \A j \in Leaders(hists[k]) : hists'[k].transform = axes[j].transform
            /\ Leaders(hists[k]) = {} => hists'[k] = hists[k]
            /\ [hists'[k] EXCEPT !.transform = hists[k].transform] = hists[k]]_vars

\* The transform the opened map holds for the element and side of an axis.
SavedFor(axis) == map.hists[axis.id][axis.side]

\* C21: without a drag, every axis of an element and side that the
\* opened map holds a saved transform for has exactly that transform, when
\* the aggregator queues it and ever after.
C21_SavedTransformRoundTrips ==
  /\ \A j \in 1..Len(cmdAxes) :
       SavedFor(cmdAxes[j]) # None => ToSer(cmdAxes[j].transform) = SavedFor(cmdAxes[j])[1]
  /\ \A j \in 1..Len(axes) :
       SavedFor(axes[j]) # None => ToSer(axes[j].transform) = SavedFor(axes[j])[1]

\* C32: a binding whose rendered flag is set has a rendered encoding: one
\* of its side and condition next to an arrow it lists, spawned or queued.
C32_RenderedHasEncoding ==
  \A i \in 1..Len(aes) :
    aes[i].rendered =>
      \E k \in 1..Len(AllHists) :
        /\ AllHists[k].side = Present(i).side
        /\ AllHists[k].condition = Present(i).condition
        /\ Position(Present(i).identifiers, AllHists[k].node_id) # 0

\* The arrows next to which the distribution binding in slot i is to be
\* drawn: loaded arrows it lists with samples that span a range, on a
\* supported side.
Drawable(i) ==
  IF i > Len(aes) \/ Present(i).kind # Dist \/ Present(i).plot # Hist THEN {}
  ELSE {r \in MatchedArrows(Present(i)) :
          LET index == Position(Present(i).identifiers, r)
          IN /\ index <= Len(Present(i).data)
             /\ Present(i).data[index] # <<>>
             /\ min_f32(Present(i).data[index]) # max_f32(Present(i).data[index])}

\* C31: under fair scheduling every drawable distribution binding
\* eventually has an encoding next to each arrow it is to be drawn on.
C31_EveryBindingEventuallyDrawn ==
  \A i \in 1..MaxBindings :
    (mapLoaded /\ Drawable(i) # {}) ~>
      (\A r \in Drawable(i) :
         \E k \in 1..Len(hists) :
           /\ hists[k].src = aes[i].src
           /\ hists[k].node_id = r
           /\ hists[k].side = Present(i).side)

\* C33: after a pass of fill_conditions the active condition is one of the
\* known conditions.
C33_ActiveConditionIsKnown ==
  [][Runs("fill_conditions") => ui'.condition \in SeqToSet(ui'.conditions)]_vars

\* The active size bindings that list arrow r.
SizedBy(r) ==
  {i \in ActiveOf(ArrowSize) : Position(Present(i).identifiers, r) # 0}

\* C34: after plot_arrow_size, with some size binding active, every arrow
\* listed in an active size binding has the width one of them gives it,
\* between min_reaction and max_reaction, and the arrows listed in none
\* have the default width.
C34_ListedArrowsAreDataDriven ==
  [][(Runs("plot_arrow_size") /\ ActiveOf(ArrowSize) # {}) =>
       \A r \in Arrows :
         LET w == scene'.stroke[r].width
         IN IF SizedBy(r) = {} THEN w = Ratio(DefaultWidth, 1)
            ELSE /\ \E i \in SizedBy(r) :
                      w = lerp(ValueOf(Present(i), r), min_f32(Present(i).data),
                               max_f32(Present(i).data), MinReaction, MaxReaction)
                 /\ w.d > 0
                 /\ MinReaction * w.d <= w.n
                 /\ w.n <= MaxReaction * w.d]_vars

\* C35: after an arrow pass that runs under a condition (not "ALL") for
\* which no binding of its channel is active, no arrow carries a data-driven
\* colour, respectively width: each has the map's or the default one.
C35_NoDataOfInactiveCondition ==
  [][/\ (Runs("plot_arrow_color") /\ ui.condition # ALL /\ ActiveOf(ArrowColor) = {}) =>
          \A r \in Arrows : scene'.stroke[r].color \in {MapStroke.color, Grey}
     /\ (Runs("plot_arrow_size") /\ ui.condition # ALL /\ ActiveOf(ArrowSize) = {}) =>
          \A r \in Arrows : scene'.stroke[r].width = Ratio(DefaultWidth, 1)]_vars

\* C36: after plot_metabolite_color, with a metabolite colour binding
\* active, every circle listed in the binding whose range the circle legend
\* shows (the last active one) has the colour that binding gives it.
C36_CirclesFollowTheLegendBinding ==
  [][(Runs("plot_metabolite_color") /\ ActiveOf(CircleColor) # {}) =>
       LET b == Present(LastOf(ActiveOf(CircleColor)))
       IN \A c \in Circles :
            Position(b.identifiers, c) # 0 =>
              scene'.fill[c] = lerp_hsv(ColorParam(ValueOf(b, c), min_f32(b.data),
                                                   max_f32(b.data)))]_vars

\* Every popup, spawned or queued.
AllPopups == hover.popups \o hover.cmd

\* C37: for every popup drawn for a binding on a Hover, the x-limits stored
\* on the Hover cover the binding's samples there, and the binding's
\* in_axis flag is set.
C37_HoverLimitsCoverPopups ==
  \A k \in 1..Len(AllPopups) :
    LET p == AllPopups[k]
        b == Pool[p.src]
        samples == SeqToSet(b.data[Position(b.identifiers, p.node_id)])
        limits == hover.xlimits[p.node_id]
    IN /\ limits # None
       /\ \A v \in samples : limits[1][1][1] <= v /\ v <= limits[1][2][1]
       /\ \A i \in 1..Len(aes) : aes[i].src = p.src => aes[i].in_axis

====
